---------------------------- MODULE Spec2Model ----------------------------
(***************************************************************************)
(* Model of the incremental multi-file code-edit stream parser of         *)
(* backend/agent_endpoints.py (agent_chat_stream.event_generator).        *)
(*                                                                         *)
(* Text is modelled as a sequence of one-character strings, so that       *)
(* splitting, stripping, joining and substring search are computed the    *)
(* way the Python code computes them.                                     *)
(***************************************************************************)
EXTENDS Naturals, Integers, Sequences, FiniteSets, TLC

(***************************************************************************)
(* Bounds of the model                                                     *)
(***************************************************************************)
\* number of blocks the upstream generator produces in one session
MaxBlocks == 2
\* longest chunk the upstream delivers, unless it delivers all it has
MaxChunkLen == 2
\* most lines of a file's stored content in a single-edit session
MaxOldLines == 3
\* most lines between the fences of a whole-file block in a single-edit session
MaxBodyLines == 3

(***************************************************************************)
(* Python string primitives                                                *)
(***************************************************************************)
NL == "\n"

\* characters str.strip() removes (those of them that occur in the model)
Whitespace == {" ", "\t", "\r", "\n"}

Min(a, b) == IF a < b THEN a ELSE b

\* s[i:] and s[:i] with 1-based positions
From(s, i) == IF i > Len(s) THEN <<>> ELSE SubSeq(s, i, Len(s))

Upto(s, i) == IF i < 1 THEN <<>> ELSE SubSeq(s, 1, Min(i, Len(s)))

\* position of the first c in s at or after position i (0 when there is none)
RECURSIVE IndexFrom(_, _, _)
IndexFrom(s, c, i) ==
    IF i > Len(s) THEN 0 ELSE IF s[i] = c THEN i ELSE IndexFrom(s, c, i + 1)

\* s.find(c) + 1
IndexOfChar(s, c) == IndexFrom(s, c, 1)

\* s.startswith(p)
StartsWith(s, p) == Len(p) <= Len(s) /\ SubSeq(s, 1, Len(p)) = p

\* s.rstrip("\n")
RECURSIVE RStripNL(_)
RStripNL(s) ==
    IF s # <<>> /\ s[Len(s)] = NL THEN RStripNL(SubSeq(s, 1, Len(s) - 1)) ELSE s

RECURSIVE LStripWS(_)
LStripWS(s) == IF s # <<>> /\ s[1] \in Whitespace THEN LStripWS(Tail(s)) ELSE s

RECURSIVE RStripWS(_)
RStripWS(s) ==
    IF s # <<>> /\ s[Len(s)] \in Whitespace THEN RStripWS(SubSeq(s, 1, Len(s) - 1)) ELSE s

\* s.strip()
Strip(s) == RStripWS(LStripWS(s))

\* s.split(sep) for a one-character separator: always at least one field
RECURSIVE SplitOn(_, _)
SplitOn(s, sep) ==
    LET i == IndexOfChar(s, sep)
    IN IF i = 0 THEN <<s>>
       ELSE <<Upto(s, i - 1)>> \o SplitOn(From(s, i + 1), sep)

\* "\n".join(lines)
RECURSIVE JoinNL(_)
JoinNL(lines) ==
    IF lines = <<>> THEN <<>>
    ELSE IF Len(lines) = 1 THEN lines[1]
    ELSE lines[1] \o <<NL>> \o JoinNL(Tail(lines))

\* s.splitlines(): the lines of s; a final newline opens no further line and
\* the empty string has no line.  (Of the line boundaries splitlines knows, only
\* "\n" occurs inside stored contents of the model.)
SplitLines(s) ==
    IF s = <<>> THEN <<>>
    ELSE IF s[Len(s)] = NL THEN SplitOn(SubSeq(s, 1, Len(s) - 1), NL)
    ELSE SplitOn(s, NL)

\* position of the first occurrence of sub in s (0 when there is none);
\* the empty string occurs at position 1 of every string
Find(s, sub) ==
    LET hits == {i \in 1..(Len(s) - Len(sub) + 1) : SubSeq(s, i, i + Len(sub) - 1) = sub}
    IN IF sub = <<>> THEN 1
       ELSE IF hits = {} THEN 0
       ELSE CHOOSE i \in hits : \A j \in hits : i <= j

\* sub in s
Contains(s, sub) == Find(s, sub) # 0

\* s.replace(old, new, 1)
ReplaceFirst(s, old, new) ==
    LET i == Find(s, old)
    IN IF i = 0 THEN s ELSE Upto(s, i - 1) \o new \o From(s, i + Len(old))

\* pathlib.Path(s).name: the last component of s, empty and "." components
\* dropped
RECURSIVE LastReal(_)
LastReal(parts) ==
    IF parts = <<>> THEN <<>>
    ELSE IF parts[Len(parts)] \in {<<>>, <<".">>} THEN LastReal(SubSeq(parts, 1, Len(parts) - 1))
    ELSE parts[Len(parts)]

PathName(s) == LastReal(SplitOn(s, "/"))

(***************************************************************************)
(* The three canonical files                                               *)
(***************************************************************************)
IndexHtml == <<"i", "n", "d", "e", "x", ".", "h", "t", "m", "l">>

FrontendJs == <<"f", "r", "o", "n", "t", "e", "n", "d", ".", "j", "s">>

StylesCss == <<"s", "t", "y", "l", "e", "s", ".", "c", "s", "s">>

filenames == {IndexHtml, FrontendJs, StylesCss}

filetype_map == (IndexHtml :> "html") @@ (FrontendJs :> "js") @@ (StylesCss :> "css")

\* insertion order of file_map, which is the iteration order of file_contents
file_order == <<IndexHtml, FrontendJs, StylesCss>>

\* current_filename = None
NoFile == <<>>

\* the grave accent U+0060 cannot be written inside a TLA+ string; this atom
\* stands for that one character
Backtick == "BACKTICK"

\* the triple-backtick marker
Fence == <<Backtick, Backtick, Backtick>>

(***************************************************************************)
(* _sanitize_message_text: two regular-expression passes that remove       *)
(* temporary workspace paths                                               *)
(***************************************************************************)
TmpPrefix == <<"t", "m", "p", "/", "a", "i", "d", "e", "r", "_">>

\* length of the longest prefix of s matching [^\/\s]*
RECURSIVE RunLen(_)
RunLen(s) ==
    IF s = <<>> \/ s[1] = "/" \/ s[1] \in Whitespace THEN 0 ELSE 1 + RunLen(Tail(s))

\* re.sub(r"tmp\/aider_[^\/\s]+\/", "", s)
RECURSIVE StripTmpDirs(_)
StripTmpDirs(s) ==
    IF s = <<>> THEN <<>>
    ELSE LET rest == From(s, Len(TmpPrefix) + 1)
             n == RunLen(rest)
         IN IF StartsWith(s, TmpPrefix) /\ n > 0 /\ n < Len(rest) /\ rest[n + 1] = "/"
            THEN StripTmpDirs(From(rest, n + 2))
            ELSE <<s[1]>> \o StripTmpDirs(Tail(s))

\* re.sub(r"tmp\/aider_[^\/\s]+", "", s)
RECURSIVE StripTmpTokens(_)
StripTmpTokens(s) ==
    IF s = <<>> THEN <<>>
    ELSE LET rest == From(s, Len(TmpPrefix) + 1)
             n == RunLen(rest)
         IN IF StartsWith(s, TmpPrefix) /\ n > 0
            THEN StripTmpTokens(From(rest, n + 1))
            ELSE <<s[1]>> \o StripTmpTokens(Tail(s))

_sanitize_message_text(text) == StripTmpTokens(StripTmpDirs(text))

(***************************************************************************)
(* difflib.ndiff line counts.  ndiff aligns the two line lists with        *)
(* SequenceMatcher: the longest common contiguous block (earliest in a,    *)
(* then earliest in b) is matched first and the parts left and right of it *)
(* are aligned recursively.  Every unmatched line of a is reported as one  *)
(* "- " line and every unmatched line of b as one "+ " line ("? " hint     *)
(* lines are not counted by the caller).  The popularity heuristic of      *)
(* SequenceMatcher needs 200 lines and is outside the model.               *)
(***************************************************************************)
\* length of the common run of a[i..ahi] and b[j..bhi]
RECURSIVE CommonRun(_, _, _, _, _, _)
CommonRun(a, b, i, ahi, j, bhi) ==
    IF i <= ahi /\ j <= bhi /\ a[i] = b[j] THEN 1 + CommonRun(a, b, i + 1, ahi, j + 1, bhi)
    ELSE 0

\* SequenceMatcher.find_longest_match over a[alo..ahi], b[blo..bhi]: <<i, j, k>>
find_longest_match(a, b, alo, ahi, blo, bhi) ==
    LET cands == {<<i, j>> : i \in alo..ahi, j \in blo..bhi}
        size(c) == CommonRun(a, b, c[1], ahi, c[2], bhi)
        better(c, d) == \/ size(c) > size(d)
                        \/ size(c) = size(d) /\ c[1] < d[1]
                        \/ size(c) = size(d) /\ c[1] = d[1] /\ c[2] <= d[2]
    IN IF cands = {} THEN <<alo, blo, 0>>
       ELSE LET best == CHOOSE c \in cands : \A d \in cands : better(c, d)
            IN <<best[1], best[2], size(best)>>

\* number of lines in the matching blocks of SequenceMatcher.get_matching_blocks
RECURSIVE MatchedLines(_, _, _, _, _, _)
MatchedLines(a, b, alo, ahi, blo, bhi) ==
    LET m == find_longest_match(a, b, alo, ahi, blo, bhi)
    IN IF m[3] = 0 THEN 0
       ELSE m[3] + MatchedLines(a, b, alo, m[1] - 1, blo, m[2] - 1)
                 + MatchedLines(a, b, m[1] + m[3], ahi, m[2] + m[3], bhi)

\* sum(1 for d in difflib.ndiff(a_lines, b_lines) if d.startswith('+ ')) and
\* the same for '- '
ndiff_stats(a_lines, b_lines) ==
    LET m == MatchedLines(a_lines, b_lines, 1, Len(a_lines), 1, Len(b_lines))
    IN [additions |-> Len(b_lines) - m, deletions |-> Len(a_lines) - m]

NoStats == [additions |-> 0, deletions |-> 0]

(***************************************************************************)
(* replace_code.py: search/replace patches.  A patch is the text between a *)
(* SEARCH marker line and a divider line (the search text) and the text    *)
(* between the divider line and a REPLACE marker line (the replacement).   *)
(***************************************************************************)
SearchMarker == <<"<", "<", "<", "<", "<", "<", "<", " ", "S", "E", "A", "R", "C", "H">>

DividerMarker == <<"=", "=", "=", "=", "=", "=", "=">>

ReplaceMarker == <<">", ">", ">", ">", ">", ">", ">", " ", "R", "E", "P", "L", "A", "C", "E">>

\* index of the first line equal to m at or after position from (0: none)
FirstLineAt(lines, m, from) ==
    LET hits == {i \in from..Len(lines) : lines[i] = m}
    IN IF hits = {} THEN 0 ELSE CHOOSE i \in hits : \A j \in hits : i <= j

\* the parsed patch, or ok = FALSE (None) when the markers are not present in
\* the expected order
parse_search_replace_block(content_str) ==
    LET lines == SplitOn(content_str, NL)
        sm == FirstLineAt(lines, SearchMarker, 1)
        dm == IF sm = 0 THEN 0 ELSE FirstLineAt(lines, DividerMarker, sm + 1)
        rm == IF dm = 0 THEN 0 ELSE FirstLineAt(lines, ReplaceMarker, dm + 1)
    IN IF rm = 0 THEN [ok |-> FALSE, orig_block |-> <<>>, upd_block |-> <<>>]
       ELSE [ok |-> TRUE,
             orig_block |-> JoinNL(SubSeq(lines, sm + 1, dm - 1)),
             upd_block |-> JoinNL(SubSeq(lines, dm + 1, rm - 1))]

\* the first file, in store order, whose content contains the search text, and
\* its content with the first occurrence replaced; (None, None) when no file
\* contains it
apply_search_replace_in_memory(contents, orig_block, upd_block) ==
    LET hits == {i \in 1..Len(file_order) : Contains(contents[file_order[i]], orig_block)}
    IN IF hits = {} THEN [target_name |-> NoFile, new_text |-> <<>>]
       ELSE LET first == CHOOSE i \in hits : \A j \in hits : i <= j
            IN [target_name |-> file_order[first],
                new_text |-> ReplaceFirst(contents[file_order[first]], orig_block, upd_block)]

(***************************************************************************)
(* Output records of the stream (one JSON object per line)                 *)
(***************************************************************************)
EditFailMessage == <<"edit_fail: SEARCH block did not match any open files">>

\* str(stream_error) of an upstream failure
StreamErrorMessage == <<"stream_error">>

RestateEvent(text) ==
    [state |-> "restate", target_files |-> <<>>, filename |-> NoFile,
     additions |-> 0, deletions |-> 0, text |-> text]

SignpostEvent(target_type) ==
    [state |-> "signpost", target_files |-> <<target_type>>, filename |-> NoFile,
     additions |-> 0, deletions |-> 0, text |-> <<>>]

ToolProgressEvent(fname, line) ==
    [state |-> "tool_progress", target_files |-> <<>>, filename |-> fname,
     additions |-> 0, deletions |-> 0, text |-> line]

ToolResultEvent(target_type, stats, fname, updated_content) ==
    [state |-> "tool_result", target_files |-> <<target_type>>, filename |-> fname,
     additions |-> stats.additions, deletions |-> stats.deletions,
     text |-> updated_content]

ErrorEvent(message) ==
    [state |-> "error", target_files |-> <<>>, filename |-> NoFile,
     additions |-> 0, deletions |-> 0, text |-> message]

(***************************************************************************)
(* MESSAGE_HISTORY and _append_history                                     *)
(***************************************************************************)
HistoryCap == 1000

\* entry.get(key): None when the entry has no such key
Get(entry, key) == IF key \in DOMAIN entry THEN entry[key] ELSE "None"

\* _append_history deleting from the end of the list when it is over the cap
_append_historyKeepsOldest(history, entry) ==
    IF Get(entry, "role") \in {"user", "assistant", "system"} /\ "content" \in DOMAIN entry
    THEN LET h == Append(history, [role |-> entry.role, content |-> entry.content])
         IN IF Len(h) > HistoryCap THEN SubSeq(h, 1, HistoryCap) ELSE h
    ELSE history

\* every content an entry of the model carries is a string, so a content
\* that is not a string is an entry without the key (entry.get gives None)
_append_history(history, entry) ==
    IF Get(entry, "role") \in {"user", "assistant", "system"} /\ "content" \in DOMAIN entry
    THEN LET h == Append(history, [role |-> entry.role, content |-> entry.content])
         IN IF Len(h) > HistoryCap THEN SubSeq(h, Len(h) - HistoryCap + 1, Len(h)) ELSE h
    ELSE history

\* the request's prompt
Prompt == <<"prompt">>

\* the entries a session appends along with the records evs: one assistant
\* entry with the text of every restate, summary and suggestions record
RECURSIVE AppendHistoryOf(_, _)
AppendHistoryOf(history, evs) ==
    IF evs = <<>> THEN history
    ELSE AppendHistoryOf(
             IF evs[1].state \in {"restate", "summary", "suggestions"}
             THEN _append_history(history, [role |-> "assistant", content |-> evs[1].text])
             ELSE history,
             Tail(evs))

(***************************************************************************)
(* The parser, as functions on the record of the generator's locals        *)
(***************************************************************************)
\* AddStats with "file_diff_stats[name] = stats"
AddStatsOverwrites(all, name, stats) == (name :> stats) @@ all

\* file_diff_stats[name] += stats (an absent entry counts as zero)
AddStats(all, name, stats) ==
    LET existing == IF name \in DOMAIN all THEN all[name] ELSE NoStats
    IN (name :> [additions |-> existing.additions + stats.additions,
                 deletions |-> existing.deletions + stats.deletions]) @@ all

\* ResetTool with the target and the collected lines left behind
ResetToolKeepsTarget(s) ==
    [s EXCEPT !.in_tool = FALSE, !.in_fence = FALSE, !.fence_lang_seen = FALSE]

\* "reset state": the five assignments that close an edit
ResetTool(s) ==
    [s EXCEPT !.in_tool = FALSE, !.in_fence = FALSE, !.fence_lang_seen = FALSE,
              !.current_filename = NoFile, !.edit_lines = <<>>]

\* AwaitingFileLine taking the basename of the line as received, not stripped
AwaitingFileLineUnstripped(s, line) ==
    LET stripped == Strip(line)
        basename == IF stripped # <<>> THEN PathName(line) ELSE <<>>
        flushed == IF s.message_accum # <<>>
                   THEN <<RestateEvent(_sanitize_message_text(s.message_accum))>>
                   ELSE <<>>
    IN IF basename \in filenames
       THEN [s EXCEPT !.events = @ \o flushed \o <<SignpostEvent(filetype_map[basename])>>,
                      !.message_accum = <<>>,
                      !.in_tool = TRUE,
                      !.current_filename = basename]
       ELSE IF stripped # <<>>
       THEN [s EXCEPT !.message_accum = @ \o line \o <<NL>>]
       ELSE s

\* AwaitingFileLine yielding the signpost before the pending free text
AwaitingFileLineSignpostFirst(s, line) ==
    LET stripped == Strip(line)
        basename == IF stripped # <<>> THEN PathName(stripped) ELSE <<>>
        flushed == IF s.message_accum # <<>>
                   THEN <<RestateEvent(_sanitize_message_text(s.message_accum))>>
                   ELSE <<>>
    IN IF basename \in filenames
       THEN [s EXCEPT !.events = @ \o <<SignpostEvent(filetype_map[basename])>> \o flushed,
                      !.message_accum = <<>>,
                      !.in_tool = TRUE,
                      !.current_filename = basename]
       ELSE IF stripped # <<>>
       THEN [s EXCEPT !.message_accum = @ \o line \o <<NL>>]
       ELSE s

\* AwaitingFileLine taking a basename that begins with a canonical filename
\* for that filename
AwaitingFileLinePrefix(s, line) ==
    LET stripped == Strip(line)
        name == IF stripped # <<>> THEN PathName(stripped) ELSE <<>>
        begun == {f \in filenames : StartsWith(name, f)}
        basename == IF begun # {} THEN CHOOSE f \in begun : TRUE ELSE name
        flushed == IF s.message_accum # <<>>
                   THEN <<RestateEvent(_sanitize_message_text(s.message_accum))>>
                   ELSE <<>>
    IN IF basename \in filenames
       THEN [s EXCEPT !.events = @ \o flushed \o <<SignpostEvent(filetype_map[basename])>>,
                      !.message_accum = <<>>,
                      !.in_tool = TRUE,
                      !.current_filename = basename]
       ELSE IF stripped # <<>>
       THEN [s EXCEPT !.message_accum = @ \o line \o <<NL>>]
       ELSE s

\* a complete line while no edit is open
AwaitingFileLine(s, line) ==
    LET stripped == Strip(line)
        basename == IF stripped # <<>> THEN PathName(stripped) ELSE <<>>
        flushed == IF s.message_accum # <<>>
                   THEN <<RestateEvent(_sanitize_message_text(s.message_accum))>>
                   ELSE <<>>
    IN IF basename \in filenames
       THEN [s EXCEPT !.events = @ \o flushed \o <<SignpostEvent(filetype_map[basename])>>,
                      !.message_accum = <<>>,
                      !.in_tool = TRUE,
                      !.current_filename = basename]
       ELSE IF stripped # <<>>
       THEN [s EXCEPT !.message_accum = @ \o line \o <<NL>>]
       ELSE s

\* a complete line after the signpost and before the fence opens
PreFenceLine(s, line) ==
    IF StartsWith(Strip(line), Fence)
    THEN [s EXCEPT !.in_fence = TRUE, !.fence_lang_seen = FALSE, !.edit_lines = <<>>]
    ELSE IF Strip(line) # <<>>
    THEN [s EXCEPT !.events = Append(@, ToolProgressEvent(s.current_filename, line))]
    ELSE s

\* Finalize storing and reporting a patch's result under the announced file
FinalizeUnderAnnounced(s) ==
    LET content_str == JoinNL(s.edit_lines)
        old_text_current == s.file_contents[s.current_filename]
        sr == parse_search_replace_block(content_str)
        applied == apply_search_replace_in_memory(s.file_contents, sr.orig_block, sr.upd_block)
        new_text_stripped == RStripNL(applied.new_text)
        sr_stats == ndiff_stats(SplitLines(old_text_current), SplitLines(new_text_stripped))
        content_str_stripped == RStripNL(content_str)
        stats == ndiff_stats(SplitLines(old_text_current), SplitLines(content_str))
    IN IF sr.ok /\ applied.target_name # NoFile
       THEN ResetTool([s EXCEPT
                !.file_contents[s.current_filename] = new_text_stripped,
                !.file_diff_stats = AddStats(@, s.current_filename, sr_stats),
                !.events = Append(@, ToolResultEvent(filetype_map[s.current_filename],
                                   sr_stats, s.current_filename, new_text_stripped))])
       ELSE IF sr.ok
       THEN ResetTool([s EXCEPT !.events = Append(@, ErrorEvent(EditFailMessage))])
       ELSE ResetTool([s EXCEPT
                !.file_contents[s.current_filename] = content_str_stripped,
                !.file_diff_stats = AddStats(@, s.current_filename, stats),
                !.events = Append(@, ToolResultEvent(filetype_map[s.current_filename],
                                   stats, s.current_filename, content_str))])

\* the closing fence arrived as a complete line
Finalize(s) ==
    LET content_str == JoinNL(s.edit_lines)
        old_text_current == s.file_contents[s.current_filename]
        sr == parse_search_replace_block(content_str)
        applied == apply_search_replace_in_memory(s.file_contents, sr.orig_block, sr.upd_block)
        new_text_stripped == RStripNL(applied.new_text)
        sr_stats == ndiff_stats(SplitLines(old_text_current), SplitLines(new_text_stripped))
        content_str_stripped == RStripNL(content_str)
        stats == ndiff_stats(SplitLines(old_text_current), SplitLines(content_str))
    IN IF sr.ok /\ applied.target_name # NoFile
       THEN ResetTool([s EXCEPT
                !.file_contents[applied.target_name] = new_text_stripped,
                !.file_diff_stats = AddStats(@, applied.target_name, sr_stats),
                !.events = Append(@, ToolResultEvent(filetype_map[applied.target_name],
                                   sr_stats, applied.target_name, new_text_stripped))])
       ELSE IF sr.ok
       THEN ResetTool([s EXCEPT !.events = Append(@, ErrorEvent(EditFailMessage))])
       ELSE ResetTool([s EXCEPT
                !.file_contents[s.current_filename] = content_str_stripped,
                !.file_diff_stats = AddStats(@, s.current_filename, stats),
                !.events = Append(@, ToolResultEvent(filetype_map[s.current_filename],
                                   stats, s.current_filename, content_str))])

\* a complete line inside the fence
InFenceLine(s, line) ==
    IF StartsWith(Strip(line), Fence) THEN Finalize(s)
    ELSE IF s.fence_lang_seen THEN [s EXCEPT !.fence_lang_seen = FALSE]
    ELSE [s EXCEPT !.edit_lines = Append(@, line)]

\* ProcessLine looking for a filename line in every state
ProcessLineAnnouncesAnywhere(s, line) ==
    IF ~s.in_tool \/ (Strip(line) # <<>> /\ PathName(Strip(line)) \in filenames)
    THEN AwaitingFileLine(s, line)
    ELSE IF ~s.in_fence THEN PreFenceLine(s, line)
    ELSE InFenceLine(s, line)

\* the body of the while loop for one complete line
ProcessLine(s, line) ==
    IF ~s.in_tool THEN AwaitingFileLine(s, line)
    ELSE IF ~s.in_fence THEN PreFenceLine(s, line)
    ELSE InFenceLine(s, line)

\* while "\n" in buffer: line, buffer = buffer.split("\n", 1); ...
RECURSIVE DrainLines(_)
DrainLines(s) ==
    LET i == IndexOfChar(s.buffer, NL)
    IN IF i = 0 THEN s
       ELSE DrainLines(ProcessLine([s EXCEPT !.buffer = From(s.buffer, i + 1)],
                                   Upto(s.buffer, i - 1)))

\* FeedChunk with "buffer = text" for "buffer += text"
FeedChunkDropsTail(s, text) == DrainLines([s EXCEPT !.buffer = text])

\* the body of the for loop for one chunk
FeedChunk(s, text) == DrainLines([s EXCEPT !.buffer = @ \o text])

\* FinalizeAtEof storing the block's text when its patch failed
FinalizeAtEofStoresFailedPatch(s) ==
    LET content_str == JoinNL(s.edit_lines)
        old_text == s.file_contents[s.current_filename]
        sr == parse_search_replace_block(content_str)
        applied == apply_search_replace_in_memory(s.file_contents, sr.orig_block, sr.upd_block)
        matched == sr.ok /\ applied.target_name # NoFile
        failed == sr.ok /\ ~matched
        updated_target_name == IF matched THEN applied.target_name ELSE s.current_filename
        updated_payload_text == IF matched THEN RStripNL(applied.new_text)
                                ELSE RStripNL(content_str)
        stats == ndiff_stats(SplitLines(old_text), SplitLines(updated_payload_text))
        shown == IF updated_payload_text = <<>> THEN content_str ELSE updated_payload_text
        failure == IF failed THEN <<ErrorEvent(EditFailMessage)>> ELSE <<>>
    IN ResetTool([s EXCEPT
           !.file_contents[updated_target_name] = updated_payload_text,
           !.file_diff_stats = AddStats(@, updated_target_name, stats),
           !.events = @ \o failure
                        \o <<ToolResultEvent(filetype_map[updated_target_name], stats,
                                             updated_target_name, shown)>>,
           !.buffer = <<>>])

\* the end-of-stream case of a closing fence without a newline
FinalizeAtEof(s) ==
    LET content_str == JoinNL(s.edit_lines)
        old_text == s.file_contents[s.current_filename]
        sr == parse_search_replace_block(content_str)
        applied == apply_search_replace_in_memory(s.file_contents, sr.orig_block, sr.upd_block)
        matched == sr.ok /\ applied.target_name # NoFile
        failed == sr.ok /\ ~matched
        updated_target_name == IF matched THEN applied.target_name ELSE s.current_filename
        \* None when the patch failed
        updated_payload_text == IF matched THEN RStripNL(applied.new_text)
                                ELSE RStripNL(content_str)
        \* splitlines() of None raises and the handler sets both counts to 0
        stats == IF failed THEN NoStats
                 ELSE ndiff_stats(SplitLines(old_text), SplitLines(updated_payload_text))
        \* (updated_payload_text or content_str)
        shown == IF failed \/ updated_payload_text = <<>> THEN content_str
                 ELSE updated_payload_text
        failure == IF failed THEN <<ErrorEvent(EditFailMessage)>> ELSE <<>>
    IN ResetTool([s EXCEPT
           !.file_contents = IF failed THEN @
                             ELSE [@ EXCEPT ![updated_target_name] = updated_payload_text],
           !.file_diff_stats = AddStats(@, updated_target_name, stats),
           !.events = @ \o failure
                        \o <<ToolResultEvent(filetype_map[updated_target_name], stats,
                                             updated_target_name, shown)>>,
           !.buffer = <<>>])

\* the flush of what is left of the text: message_accum + buffer
FlushTail(t) ==
    LET tail_text == t.message_accum \o t.buffer
    IN IF tail_text # <<>>
       THEN [t EXCEPT !.events = Append(@, RestateEvent(_sanitize_message_text(tail_text)))]
       ELSE t

\* FlushAtEof finalizing the open fence whatever the rest of the text is
FlushAtEofFinalizesOpenFence(s) ==
    FlushTail(IF s.in_fence /\ s.current_filename # NoFile THEN FinalizeAtEof(s) ELSE s)

\* the code after the for loop, up to the write of the files to disk
FlushAtEof(s) ==
    FlushTail(IF s.in_fence /\ StartsWith(Strip(s.buffer), Fence) /\ s.current_filename # NoFile
              THEN FinalizeAtEof(s) ELSE s)

(***************************************************************************)
(* Inputs of a session: the caller's files and what the upstream generator *)
(* (coder.run_stream) sends                                                *)
(***************************************************************************)
\* every line followed by a newline
RECURSIVE Lines(_)
Lines(ls) == IF ls = <<>> THEN <<>> ELSE ls[1] \o <<NL>> \o Lines(Tail(ls))

TextHi == <<"h", "i">>

TextNote == <<"n", "o", "t", "e">>

HtmlHi == <<"<", "p", ">", "h", "i", "<", "/", "p", ">">>

HtmlX == <<"<", "p", ">", "x", "<", "/", "p", ">">>

CssRed == <<"b", "o", "d", "y", "{", "c", "o", "l", "o", "r", ":", "r", "e", "d", "}">>

ColorRed == <<"c", "o", "l", "o", "r", ":", "r", "e", "d">>

ColorBlue == <<"c", "o", "l", "o", "r", ":", "b", "l", "u", "e">>

CloseP == <<"<", "/", "p", ">">>

\* file_map as _create_temp_workspace builds it from the request
EmptyFiles == (IndexHtml :> <<>>) @@ (FrontendJs :> <<>>) @@ (StylesCss :> <<>>)

SomeFiles == (IndexHtml :> HtmlX \o <<NL>>) @@ (FrontendJs :> <<>>) @@ (StylesCss :> CssRed)

IncomingFiles == {EmptyFiles, SomeFiles}

\* free assistant text
TextBlock == Lines(<<TextHi>>)

\* whole-file replacement of index.html
WholeHtmlBlock == Lines(<<IndexHtml, Fence \o <<"h", "t", "m", "l">>, HtmlHi, Fence>>)

\* whole-file replacement of styles.css whose content ends in empty lines
WholeCssBlock == Lines(<<<<" ">> \o StylesCss, Fence, CssRed, <<>>, <<>>, Fence>>)

\* patch announced for index.html whose search text is in styles.css, if anywhere
PatchColorBlock ==
    Lines(<<IndexHtml, Fence, SearchMarker, ColorRed, DividerMarker, ColorBlue,
            ReplaceMarker, Fence>>)

\* patch announced for styles.css whose search text is in index.html, if
\* anywhere, and whose replacement ends in a newline
PatchTailBlock ==
    Lines(<<StylesCss, Fence, SearchMarker, CloseP, DividerMarker, <<>>, <<>>,
            ReplaceMarker, Fence>>)

\* an edit of frontend.js with narration, left open
OpenJsBlock == Lines(<<FrontendJs, TextNote, Fence, <<"x">>>>)

\* a fence marker on its own
FenceBlock == Lines(<<Fence>>)

Blocks == {TextBlock, WholeHtmlBlock, WholeCssBlock, PatchColorBlock, PatchTailBlock,
           OpenJsBlock, FenceBlock}

(***************************************************************************)
(* State                                                                   *)
(***************************************************************************)
VARIABLES
    buffer,            \* unterminated tail of the text received so far
    in_tool,           \* an edit is open (a signpost was emitted)
    current_filename,  \* the announced file of the open edit, or NoFile
    in_fence,          \* the fence of the open edit is open
    fence_lang_seen,
    edit_lines,        \* lines collected inside the fence
    message_accum,     \* pending free text
    file_contents,     \* the in-memory file store
    initial_contents,  \* the store as seeded
    file_diff_stats,   \* cumulative diff statistics per filename
    events,            \* the records yielded so far, in order
    disk,              \* contents of the files in the temporary workspace
    pc,                \* "streaming", "done" or "failed"
    pending,           \* text the upstream has generated and not yet delivered
    produced,          \* number of blocks the upstream generated
    exhausted,         \* the upstream generates nothing more
    consumed,          \* all text delivered so far
    split_mid_line,    \* some chunk ended inside a line
    generated,         \* the block the upstream generated last
    before_block,      \* the generator's locals when that block was generated
    peer,              \* a second request's session running at the same time, or NoPeer
    MESSAGE_HISTORY,   \* the module's message history, shared by all requests
    history_calls,     \* number of _append_history calls made by other callers
    db,                \* the users and password_reset_tokens tables
    utcnow,            \* the clock, in minutes
    http,              \* the request handled last and its response
    redeemed,          \* the tokens of the successful /reset-password requests, in order
    python_code,       \* the functions of the code given to EndpointParser.parse
    endpoints,         \* what parse returned
    trace_messages,    \* OpenAIAgent.trace_messages
    retry              \* the position of a _json_with_retry call and what it has done

parser_vars == <<buffer, in_tool, current_filename, in_fence, fence_lang_seen, edit_lines,
                 message_accum, file_contents, file_diff_stats, events>>

vars == <<buffer, in_tool, current_filename, in_fence, fence_lang_seen, edit_lines,
          message_accum, file_contents, initial_contents, file_diff_stats, events, disk,
          pc, pending, produced, exhausted, consumed, split_mid_line, generated,
          before_block, peer, MESSAGE_HISTORY, history_calls, db, utcnow, http, redeemed,
          python_code, endpoints, trace_messages, retry>>

\* state outside the two sessions and the history
auth_vars == <<db, utcnow, http, redeemed>>

parse_vars == <<python_code, endpoints>>

agent_vars == <<trace_messages, retry>>

other_vars == <<history_calls, auth_vars, parse_vars, agent_vars>>

\* the generator's locals as one record
Locals ==
    [buffer |-> buffer, in_tool |-> in_tool, current_filename |-> current_filename,
     in_fence |-> in_fence, fence_lang_seen |-> fence_lang_seen, edit_lines |-> edit_lines,
     message_accum |-> message_accum, file_contents |-> file_contents,
     file_diff_stats |-> file_diff_stats, events |-> events]

\* InitialLocals seeding the store with the contents as received
InitialLocalsUnstripped(file_map) ==
    [buffer |-> <<>>, in_tool |-> FALSE, current_filename |-> NoFile, in_fence |-> FALSE,
     fence_lang_seen |-> FALSE, edit_lines |-> <<>>, message_accum |-> <<>>,
     file_contents |-> [f \in filenames |-> file_map[f]],
     file_diff_stats |-> <<>>, events |-> <<>>]

\* the locals right after the seeding loop and the assignments before the try
InitialLocals(file_map) ==
    [buffer |-> <<>>, in_tool |-> FALSE, current_filename |-> NoFile, in_fence |-> FALSE,
     fence_lang_seen |-> FALSE, edit_lines |-> <<>>, message_accum |-> <<>>,
     file_contents |-> [f \in filenames |-> RStripNL(file_map[f])],
     file_diff_stats |-> <<>>, events |-> <<>>]

SetLocals(s) ==
    /\ buffer' = s.buffer
    /\ in_tool' = s.in_tool
    /\ current_filename' = s.current_filename
    /\ in_fence' = s.in_fence
    /\ fence_lang_seen' = s.fence_lang_seen
    /\ edit_lines' = s.edit_lines
    /\ message_accum' = s.message_accum
    /\ file_contents' = s.file_contents
    /\ file_diff_stats' = s.file_diff_stats
    /\ events' = s.events

\* no second request
NoPeer == <<>>

\* nothing but the sessions has acted
\* no password reset has been requested
AuthIdle == db = <<>> /\ utcnow = 0 /\ http = <<>> /\ redeemed = <<>>

\* no code has been given to the endpoint parser
ParseIdle == python_code = <<>> /\ endpoints = <<>>

\* the planning agent has not been called
AgentIdle == trace_messages = <<>> /\ retry = <<>>

OthersIdle == history_calls = 0 /\ AuthIdle /\ ParseIdle /\ AgentIdle

Init ==
    \E file_map \in IncomingFiles :
        LET s == InitialLocals(file_map)
        IN /\ buffer = s.buffer
           /\ in_tool = s.in_tool
           /\ current_filename = s.current_filename
           /\ in_fence = s.in_fence
           /\ fence_lang_seen = s.fence_lang_seen
           /\ edit_lines = s.edit_lines
           /\ message_accum = s.message_accum
           /\ file_contents = s.file_contents
           /\ file_diff_stats = s.file_diff_stats
           /\ events = s.events
           /\ initial_contents = s.file_contents
           /\ disk = file_map
           /\ pc = "streaming"
           /\ pending = <<>>
           /\ produced = 0
           /\ exhausted = FALSE
           /\ consumed = <<>>
           /\ split_mid_line = FALSE
           /\ generated = <<>>
           /\ before_block = s
           /\ peer = NoPeer
           /\ OthersIdle
           /\ MESSAGE_HISTORY = _append_history(<<>>, [role |-> "user", content |-> Prompt])

(***************************************************************************)
(* Actions                                                                 *)
(***************************************************************************)
\* the upstream generates its next block; a last block may lack its final
\* newline
Generate ==
    /\ pc = "streaming"
    /\ pending = <<>>
    /\ ~exhausted
    /\ produced < MaxBlocks
    /\ \E b \in Blocks, last \in BOOLEAN :
          /\ pending' = IF last THEN SubSeq(b, 1, Len(b) - 1) ELSE b
          /\ exhausted' = last
    /\ generated' = pending'
    /\ before_block' = Locals
    /\ produced' = produced + 1
    /\ UNCHANGED <<other_vars, parser_vars, initial_contents, disk, pc, consumed, split_mid_line, peer,
                   MESSAGE_HISTORY>>

\* one iteration of "for chunk in coder.run_stream(prompt_)"
Chunk ==
    /\ pc = "streaming"
    /\ pending # <<>>
    /\ \E n \in (1..Min(MaxChunkLen, Len(pending))) \cup {Len(pending)} :
          LET text == Upto(pending, n)
          IN /\ \E s \in {FeedChunk(Locals, text)} :
                   /\ SetLocals(s)
                   /\ MESSAGE_HISTORY' =
                          AppendHistoryOf(MESSAGE_HISTORY,
                                          SubSeq(s.events, Len(events) + 1, Len(s.events)))
             /\ pending' = From(pending, n + 1)
             /\ consumed' = consumed \o text
             /\ split_mid_line' = (split_mid_line \/ text[Len(text)] # NL)
    /\ UNCHANGED <<other_vars, initial_contents, disk, pc, produced, exhausted, generated, before_block,
                   peer>>

\* files whose final content differs from the seeded content
ChangedFiles(contents) == {f \in filenames : RStripNL(contents[f]) # RStripNL(initial_contents[f])}

SummaryEvent ==
    [state |-> "summary", target_files |-> <<>>, filename |-> NoFile,
     additions |-> 0, deletions |-> 0, text |-> <<"summary">>]

SuggestionsEvent ==
    [state |-> "suggestions", target_files |-> <<>>, filename |-> NoFile,
     additions |-> 0, deletions |-> 0, text |-> <<"suggestions">>]

\* the upstream is exhausted: flush, write the store to disk, report the
\* summary and suggestions the summarizer returned, remove the workspace
EndOfStream ==
    /\ pc = "streaming"
    /\ pending = <<>>
    /\ \E s \in {FlushAtEof(Locals)}, summary \in BOOLEAN, suggestions \in BOOLEAN :
             /\ (summary \/ suggestions) => ChangedFiles(s.file_contents) # {}
             /\ SetLocals([s EXCEPT !.events =
                    @ \o (IF summary THEN <<SummaryEvent>> ELSE <<>>)
                      \o (IF suggestions THEN <<SuggestionsEvent>> ELSE <<>>)])
             /\ MESSAGE_HISTORY' =
                    AppendHistoryOf(MESSAGE_HISTORY,
                                    SubSeq(s.events, Len(events) + 1, Len(s.events))
                                      \o (IF summary THEN <<SummaryEvent>> ELSE <<>>)
                                      \o (IF suggestions THEN <<SuggestionsEvent>> ELSE <<>>))
             /\ disk' = s.file_contents
    /\ pc' = "done"
    /\ UNCHANGED <<other_vars, initial_contents, pending, produced, exhausted, consumed, split_mid_line,
                   generated, before_block, peer>>

\* StreamError running the end-of-stream flush and the write to disk first
StreamErrorFlushes ==
    /\ pc = "streaming"
    /\ \E s \in {FlushAtEof(Locals)} :
          /\ SetLocals([s EXCEPT !.events = Append(@, ErrorEvent(StreamErrorMessage))])
          /\ disk' = s.file_contents
    /\ pc' = "failed"
    /\ UNCHANGED <<other_vars, initial_contents, pending, produced, exhausted, consumed, split_mid_line,
                   generated, before_block, peer, MESSAGE_HISTORY>>

\* coder.run_stream raises: the except clause reports it and the session ends
StreamError ==
    /\ pc = "streaming"
    /\ events' = Append(events, ErrorEvent(StreamErrorMessage))
    /\ pc' = "failed"
    /\ UNCHANGED <<other_vars, buffer, in_tool, current_filename, in_fence, fence_lang_seen, edit_lines,
                   message_accum, file_contents, initial_contents, file_diff_stats, disk,
                   pending, produced, exhausted, consumed, split_mid_line, generated,
                   before_block, peer, MESSAGE_HISTORY>>

Next == Generate \/ Chunk \/ EndOfStream \/ StreamError

Spec == Init /\ [][Next]_vars

(***************************************************************************)
(* Single-edit sessions: the request's files and the edit block are drawn  *)
(* from larger sets, and the session is taken up at the point where the    *)
(* upstream has delivered everything but the last line.                    *)
(***************************************************************************)
\* all sequences of at most n elements of S
SeqsUpTo(S, n) == UNION {[1..k -> S] : k \in 0..n}

\* the lines stored contents are made of
OldLines == {<<"a">>, <<>>}

\* the lines whole-file bodies are made of
ContentLines == {<<"a">>, <<"b">>, <<>>}

\* the two ways the closing fence can arrive: as a complete line, or as the
\* unterminated end of the stream
ClosingFences == {Fence \o <<NL>>, Fence}

\* a whole-file block for index.html, over a store whose index.html holds any
\* old content
DiffScenarios ==
    {[file_map |-> [EmptyFiles EXCEPT ![IndexHtml] = JoinNL(old)],
      pre |-> <<>>,
      head |-> Lines(<<IndexHtml, Fence>> \o body),
      tail |-> closing] :
        old \in SeqsUpTo(OldLines, MaxOldLines),
        body \in SeqsUpTo(ContentLines, MaxBodyLines),
        closing \in ClosingFences}

\* a patch block announced for any file, over an empty or a filled store
PatchScenarios ==
    {[file_map |-> file_map,
      pre |-> <<>>,
      head |-> Lines(<<name, Fence, SearchMarker, p[1], DividerMarker, p[2], ReplaceMarker>>),
      tail |-> closing] :
        file_map \in IncomingFiles,
        name \in filenames,
        p \in {<<ColorRed, ColorBlue>>, <<ColorRed, ColorRed>>, <<CloseP, <<>>>>},
        closing \in ClosingFences}

\* lines that are, or are almost, a canonical filename
CandidateLines ==
    {IndexHtml,
     <<" ">> \o StylesCss \o <<" ">>,
     <<"s", "r", "c", "/">> \o IndexHtml,
     <<".", "/">> \o FrontendJs \o <<"\t">>,
     StylesCss \o <<"/">>,
     Upto(IndexHtml, 9),
     <<"I">> \o Tail(IndexHtml),
     IndexHtml \o <<".", "b", "a", "k">>,
     IndexHtml \o <<":">>,
     <<"e", "d", "i", "t", " ">> \o FrontendJs,
     <<>>,
     <<" ", " ">>}

\* one line arriving in the awaiting-file state, with or without free text
\* pending
LineScenarios ==
    {[file_map |-> EmptyFiles,
      pre |-> pre,
      head |-> <<>>,
      tail |-> line \o <<NL>>] :
        pre \in {<<>>, TextBlock},
        line \in CandidateLines}

\* lines that arrive after a signpost, before the fence opens
PreFenceLines ==
    {TextNote, <<>>, <<" ", " ">>, Fence, <<" ">> \o Fence \o <<"c", "s", "s">>, IndexHtml}

\* an edit of styles.css is open and one more line arrives
PreFenceScenarios ==
    {[file_map |-> EmptyFiles,
      pre |-> Lines(<<StylesCss>>),
      head |-> <<>>,
      tail |-> line \o <<NL>>] :
        line \in PreFenceLines}

Scenarios == DiffScenarios \cup PatchScenarios \cup LineScenarios \cup PreFenceScenarios

\* the session after the for loop consumed c.pre and, of the block generated
\* last, c.head, with c.tail still to come
ScenarioInit ==
    \E c \in Scenarios :
    \E s0 \in {FeedChunk(InitialLocals(c.file_map), c.pre)} :
    \E s \in {FeedChunk(s0, c.head)} :
        /\ buffer = s.buffer
        /\ in_tool = s.in_tool
        /\ current_filename = s.current_filename
        /\ in_fence = s.in_fence
        /\ fence_lang_seen = s.fence_lang_seen
        /\ edit_lines = s.edit_lines
        /\ message_accum = s.message_accum
        /\ file_contents = s.file_contents
        /\ file_diff_stats = s.file_diff_stats
        /\ events = s.events
        /\ initial_contents = InitialLocals(c.file_map).file_contents
        /\ disk = c.file_map
        /\ pc = "streaming"
        /\ pending = c.tail
        /\ produced = 1
        /\ exhausted = TRUE
        /\ consumed = c.pre \o c.head
        /\ split_mid_line = FALSE
        /\ generated = c.head \o c.tail
        /\ before_block = s0
        /\ peer = NoPeer
        /\ OthersIdle
        /\ MESSAGE_HISTORY = _append_history(<<>>, [role |-> "user", content |-> Prompt])

ScenarioNext == Chunk \/ EndOfStream

ScenarioSpec == ScenarioInit /\ [][ScenarioNext]_vars

(***************************************************************************)
(* Two requests at the same time.  Each call of agent_chat_stream makes    *)
(* its own generator, whose locals are its session; the calls are served   *)
(* concurrently and their chunks arrive in any interleaving.  The module's *)
(* MESSAGE_HISTORY is the one object both append to.  The first session is *)
(* held in the variables of the single-session model, the second in the    *)
(* record peer.  Each session is taken up with the head of its stream      *)
(* consumed, inside a line.                                                *)
(***************************************************************************)
\* a whole-file block, and free text followed by a patch block whose closing
\* fence ends the stream
SessionStreams ==
    {[head |-> Upto(WholeHtmlBlock, Len(WholeHtmlBlock) - 10),
      tail |-> From(WholeHtmlBlock, Len(WholeHtmlBlock) - 9)],
     [head |-> TextBlock \o Upto(PatchColorBlock, Len(PatchColorBlock) - 9),
      tail |-> SubSeq(PatchColorBlock, Len(PatchColorBlock) - 8, Len(PatchColorBlock) - 1)]}

\* a session as a record: the generator's locals and what surrounds them
PeerSession(file_map, stream) ==
    [locals |-> FeedChunk(InitialLocals(file_map), stream.head),
     initial_contents |-> InitialLocals(file_map).file_contents,
     disk |-> file_map,
     pc |-> "streaming",
     pending |-> stream.tail,
     consumed |-> stream.head]

TwoInit ==
    \E file_map \in IncomingFiles, stream \in SessionStreams :
    \E peer_map \in IncomingFiles, peer_stream \in SessionStreams :
    \E s0 \in {InitialLocals(file_map)} :
    \E s \in {FeedChunk(s0, stream.head)} :
        /\ buffer = s.buffer
        /\ in_tool = s.in_tool
        /\ current_filename = s.current_filename
        /\ in_fence = s.in_fence
        /\ fence_lang_seen = s.fence_lang_seen
        /\ edit_lines = s.edit_lines
        /\ message_accum = s.message_accum
        /\ file_contents = s.file_contents
        /\ file_diff_stats = s.file_diff_stats
        /\ events = s.events
        /\ initial_contents = s0.file_contents
        /\ disk = file_map
        /\ pc = "streaming"
        /\ pending = stream.tail
        /\ produced = 1
        /\ exhausted = TRUE
        /\ consumed = stream.head
        /\ split_mid_line = TRUE
        /\ generated = stream.head \o stream.tail
        /\ before_block = s0
        /\ peer = PeerSession(peer_map, peer_stream)
        /\ OthersIdle
        /\ MESSAGE_HISTORY =
              AppendHistoryOf(
                  AppendHistoryOf(
                      _append_history(
                          _append_history(<<>>, [role |-> "user", content |-> Prompt]),
                          [role |-> "user", content |-> Prompt]),
                      s.events),
                  peer.locals.events)

\* PeerChunk with one tokenizer buffer for both sessions
PeerChunkSharesBuffer ==
    /\ peer # NoPeer
    /\ peer.pc = "streaming"
    /\ peer.pending # <<>>
    /\ \E n \in (1..Min(MaxChunkLen, Len(peer.pending))) \cup {Len(peer.pending)} :
       \E s \in {FeedChunk([peer.locals EXCEPT !.buffer = buffer], Upto(peer.pending, n))} :
          /\ peer' = [peer EXCEPT !.locals = s,
                                  !.pending = From(@, n + 1),
                                  !.consumed = @ \o Upto(peer.pending, n)]
          /\ buffer' = s.buffer
          /\ MESSAGE_HISTORY' =
                AppendHistoryOf(MESSAGE_HISTORY,
                                SubSeq(s.events, Len(peer.locals.events) + 1, Len(s.events)))
    /\ UNCHANGED <<other_vars, in_tool, current_filename, in_fence, fence_lang_seen, edit_lines,
                   message_accum, file_contents, file_diff_stats, events, initial_contents,
                   disk, pc, pending, produced, exhausted, consumed, split_mid_line,
                   generated, before_block>>

\* one iteration of the for loop in the second request's generator
PeerChunk ==
    /\ peer # NoPeer
    /\ peer.pc = "streaming"
    /\ peer.pending # <<>>
    /\ \E n \in (1..Min(MaxChunkLen, Len(peer.pending))) \cup {Len(peer.pending)} :
       \E s \in {FeedChunk(peer.locals, Upto(peer.pending, n))} :
          /\ peer' = [peer EXCEPT !.locals = s,
                                  !.pending = From(@, n + 1),
                                  !.consumed = @ \o Upto(peer.pending, n)]
          /\ MESSAGE_HISTORY' =
                AppendHistoryOf(MESSAGE_HISTORY,
                                SubSeq(s.events, Len(peer.locals.events) + 1, Len(s.events)))
    /\ UNCHANGED <<other_vars, parser_vars, initial_contents, disk, pc, pending, produced, exhausted,
                   consumed, split_mid_line, generated, before_block>>

\* the second request's upstream is exhausted
PeerEndOfStream ==
    /\ peer # NoPeer
    /\ peer.pc = "streaming"
    /\ peer.pending = <<>>
    /\ \E s \in {FlushAtEof(peer.locals)}, summary \in BOOLEAN, suggestions \in BOOLEAN :
       \E closing \in {(IF summary THEN <<SummaryEvent>> ELSE <<>>)
                          \o (IF suggestions THEN <<SuggestionsEvent>> ELSE <<>>)} :
          /\ (summary \/ suggestions) =>
                \E f \in filenames : s.file_contents[f] # peer.initial_contents[f]
          /\ peer' = [peer EXCEPT !.locals = [s EXCEPT !.events = @ \o closing],
                                  !.disk = s.file_contents,
                                  !.pc = "done"]
          /\ MESSAGE_HISTORY' =
                AppendHistoryOf(MESSAGE_HISTORY,
                                SubSeq(s.events, Len(peer.locals.events) + 1, Len(s.events))
                                  \o closing)
    /\ UNCHANGED <<other_vars, parser_vars, initial_contents, disk, pc, pending, produced, exhausted,
                   consumed, split_mid_line, generated, before_block>>

TwoNext == Chunk \/ EndOfStream \/ PeerChunk \/ PeerEndOfStream

TwoSpec == TwoInit /\ [][TwoNext]_vars

(***************************************************************************)
(* The history across requests.  MESSAGE_HISTORY lives as long as the      *)
(* process, so a request meets the entries of all the requests before it.  *)
(* The session is taken up as above, with the history two entries short of *)
(* the cap when the request arrived; besides the session, other requests   *)
(* call _append_history with entries of their own, valid or not.           *)
(***************************************************************************)
MaxCalls == 2

\* the entry appended i-th by the requests before this one
PriorEntry(i) ==
    [role |-> IF i % 3 = 0 THEN "user" ELSE IF i % 3 = 1 THEN "assistant" ELSE "system",
     content |-> [j \in 1..((i % 4) + 1) |-> "o"]]

PriorHistory == [i \in 1..(HistoryCap - 2) |-> PriorEntry(i)]

\* what another caller may pass: the three roles, a role outside them, an
\* entry without a role, and entries whose content is not a string
OtherEntries ==
    {[role |-> r, content |-> <<"x">>] : r \in {"user", "assistant", "system", "tool"}}
      \cup {[role |-> "user"], [content |-> <<"x">>], [role |-> "tool"]}

HistoryInit ==
    \E file_map \in IncomingFiles, stream \in SessionStreams :
    \E s0 \in {InitialLocals(file_map)} :
    \E s \in {FeedChunk(s0, stream.head)} :
        /\ buffer = s.buffer
        /\ in_tool = s.in_tool
        /\ current_filename = s.current_filename
        /\ in_fence = s.in_fence
        /\ fence_lang_seen = s.fence_lang_seen
        /\ edit_lines = s.edit_lines
        /\ message_accum = s.message_accum
        /\ file_contents = s.file_contents
        /\ file_diff_stats = s.file_diff_stats
        /\ events = s.events
        /\ initial_contents = s0.file_contents
        /\ disk = file_map
        /\ pc = "streaming"
        /\ pending = stream.tail
        /\ produced = 1
        /\ exhausted = TRUE
        /\ consumed = stream.head
        /\ split_mid_line = TRUE
        /\ generated = stream.head \o stream.tail
        /\ before_block = s0
        /\ peer = NoPeer
        /\ OthersIdle
        /\ MESSAGE_HISTORY =
              AppendHistoryOf(
                  _append_history(PriorHistory, [role |-> "user", content |-> Prompt]),
                  s.events)

\* another request or caller passes an entry to _append_history
HistoryCall ==
    /\ history_calls < MaxCalls
    /\ \E entry \in OtherEntries :
          MESSAGE_HISTORY' = _append_history(MESSAGE_HISTORY, entry)
    /\ history_calls' = history_calls + 1
    /\ UNCHANGED <<parser_vars, initial_contents, disk, pc, pending, produced, exhausted,
                   consumed, split_mid_line, generated, before_block, peer, auth_vars, parse_vars,
                   agent_vars>>

HistoryNext == Chunk \/ EndOfStream \/ HistoryCall

HistorySpec == HistoryInit /\ [][HistoryNext]_vars

(***************************************************************************)
(* Password reset (main.py): /send-password-reset, /validate-reset-token   *)
(* and /reset-password over the users and password_reset_tokens tables.    *)
(* Requests are handled one at a time; no edit session is running.         *)
(***************************************************************************)
\* the variables of the edit sessions and of the history
session_vars == <<parser_vars, initial_contents, disk, pc, pending, produced, exhausted,
                  consumed, split_mid_line, generated, before_block, peer, MESSAGE_HISTORY,
                  history_calls>>

\* no request to /agent-chat has been made
NoSession ==
    \E s \in {InitialLocals(EmptyFiles)} :
        /\ buffer = s.buffer
        /\ in_tool = s.in_tool
        /\ current_filename = s.current_filename
        /\ in_fence = s.in_fence
        /\ fence_lang_seen = s.fence_lang_seen
        /\ edit_lines = s.edit_lines
        /\ message_accum = s.message_accum
        /\ file_contents = s.file_contents
        /\ file_diff_stats = s.file_diff_stats
        /\ events = s.events
        /\ initial_contents = s.file_contents
        /\ disk = EmptyFiles
        /\ pc = "idle"
        /\ pending = <<>>
        /\ produced = 0
        /\ exhausted = FALSE
        /\ consumed = <<>>
        /\ split_mid_line = FALSE
        /\ generated = <<>>
        /\ before_block = s
        /\ peer = NoPeer
        /\ MESSAGE_HISTORY = <<>>
        /\ history_calls = 0

\* timedelta(minutes=30)
ExpireMinutes == 30

MaxTokens == 2
MaxMinutes == 40

\* the steps of the clock between two requests
TickMinutes == {10, ExpireMinutes}

\* pwd_context.hash: the stored value is not the password
get_password_hash(password) == [hash_of |-> password]

\* the accounts of the users table
Accounts ==
    <<[id |-> 1, username |-> "testuser", email |-> "testuser@example.com",
       password |-> get_password_hash("testpass123")],
      [id |-> 2, username |-> "otheruser", email |-> "otheruser@example.com",
       password |-> get_password_hash("otherpass123")]>>

\* what a client may send as username_or_email
Identifiers ==
    {"testuser", "testuser@example.com", "otheruser", "otheruser@example.com",
     "nonexistentuser"}

\* a PasswordResetConfirm carries a new_password of at least 8 characters
NewPasswords == {"newpass123", "newpass456"}

\* "fake-token-for-testing"
FakeToken == 0

\* generate_reset_token: a token no record carries yet
generate_reset_token(tokens) == Len(tokens) + 1

\* the tokens a client may present: the fake one and every one issued or
\* to be issued
PresentedTokens == 0..MaxTokens

\* db.query(User).filter(or_(username == x, email == x)).first(), 0 for None
UserByNameOrEmail(users, x) ==
    IF \E i \in 1..Len(users) : users[i].username = x \/ users[i].email = x
    THEN CHOOSE i \in 1..Len(users) :
             /\ users[i].username = x \/ users[i].email = x
             /\ \A j \in 1..(i - 1) : ~(users[j].username = x \/ users[j].email = x)
    ELSE 0

\* ValidTokenRecord without the "used == False" filter
ValidTokenRecordIgnoresUsed(tokens, token, now) ==
    IF \E i \in 1..Len(tokens) : tokens[i].token = token /\ tokens[i].expires_at > now
    THEN CHOOSE i \in 1..Len(tokens) : tokens[i].token = token /\ tokens[i].expires_at > now
    ELSE 0

\* db.query(PasswordResetToken).filter(token == t, used == False,
\* expires_at > utcnow()).first(), 0 for None
ValidTokenRecord(tokens, token, now) ==
    IF \E i \in 1..Len(tokens) :
           tokens[i].token = token /\ ~tokens[i].used /\ tokens[i].expires_at > now
    THEN CHOOSE i \in 1..Len(tokens) :
             /\ tokens[i].token = token /\ ~tokens[i].used /\ tokens[i].expires_at > now
             /\ \A j \in 1..(i - 1) :
                    ~(tokens[j].token = token /\ ~tokens[j].used /\ tokens[j].expires_at > now)
    ELSE 0

\* .filter(user_id == id, used == False).update({"used": True})
InvalidateTokens(tokens, id) ==
    [i \in 1..Len(tokens) |->
        IF tokens[i].user_id = id /\ ~tokens[i].used
        THEN [tokens[i] EXCEPT !.used = TRUE] ELSE tokens[i]]

AuthInit ==
    /\ NoSession /\ ParseIdle /\ AgentIdle
    /\ db = [users |-> Accounts, password_reset_tokens |-> <<>>]
    /\ utcnow = 0
    /\ http = <<>>
    /\ redeemed = <<>>

\* POST /send-password-reset; email_sent is what send_password_reset_email
\* returned
send_password_reset ==
    \E username_or_email \in Identifiers, email_sent \in BOOLEAN :
    \E user \in {UserByNameOrEmail(db.users, username_or_email)} :
        IF user = 0
        THEN /\ http' = [endpoint |-> "/send-password-reset", arg |-> username_or_email,
                         status |-> 404, reset_token |-> FakeToken]
             /\ UNCHANGED <<db, utcnow, redeemed, session_vars, parse_vars, agent_vars>>
        ELSE /\ Len(db.password_reset_tokens) < MaxTokens
             /\ \E reset_token \in {generate_reset_token(db.password_reset_tokens)} :
                   /\ db' = [db EXCEPT !.password_reset_tokens =
                                Append(InvalidateTokens(@, db.users[user].id),
                                       [user_id |-> db.users[user].id,
                                        token |-> reset_token,
                                        expires_at |-> utcnow + ExpireMinutes,
                                        used |-> FALSE])]
                   /\ http' = [endpoint |-> "/send-password-reset",
                               arg |-> username_or_email, status |-> 200,
                               reset_token |-> IF email_sent THEN FakeToken ELSE reset_token]
             /\ UNCHANGED <<utcnow, redeemed, session_vars, parse_vars, agent_vars>>

\* GET /validate-reset-token
validate_reset_token ==
    \E token \in PresentedTokens :
    \E reset_token_record \in {ValidTokenRecord(db.password_reset_tokens, token, utcnow)} :
        /\ http' = [endpoint |-> "/validate-reset-token", arg |-> token,
                    status |-> IF reset_token_record = 0 THEN 400 ELSE 200,
                    reset_token |-> FakeToken]
        /\ UNCHANGED <<db, utcnow, redeemed, session_vars, parse_vars, agent_vars>>

\* POST /reset-password
reset_password ==
    \E token \in PresentedTokens, new_password \in NewPasswords :
    \E reset_token_record \in {ValidTokenRecord(db.password_reset_tokens, token, utcnow)} :
        IF reset_token_record = 0
        THEN /\ http' = [endpoint |-> "/reset-password", arg |-> token, status |-> 400,
                         reset_token |-> FakeToken]
             /\ UNCHANGED <<db, utcnow, redeemed, session_vars, parse_vars, agent_vars>>
        ELSE /\ db' = [db EXCEPT
                          !.users[db.password_reset_tokens[reset_token_record].user_id].password =
                              get_password_hash(new_password),
                          !.password_reset_tokens[reset_token_record].used = TRUE]
             /\ http' = [endpoint |-> "/reset-password", arg |-> token, status |-> 200,
                         reset_token |-> FakeToken]
             /\ redeemed' = Append(redeemed, token)
             /\ UNCHANGED <<utcnow, session_vars, parse_vars, agent_vars>>

\* time passes between two requests
Tick ==
    /\ \E d \in TickMinutes :
          /\ utcnow + d <= MaxMinutes
          /\ utcnow' = utcnow + d
    /\ UNCHANGED <<db, http, redeemed, session_vars, parse_vars, agent_vars>>

AuthNext == send_password_reset \/ validate_reset_token \/ reset_password \/ Tick

AuthSpec == AuthInit /\ [][AuthNext]_vars

(***************************************************************************)
(* EndpointParser (parsers/endpoint_parser.py).  The code given to parse   *)
(* is held as the function definitions ast.parse finds in it, in source    *)
(* order: the kind of the node, its name, its arguments and its decorator  *)
(* list.                                                                   *)
(***************************************************************************)
MaxFunctions == 2

\* @endpoint, @endpoint(), @endpoint("/api/users"), the same with a methods
\* keyword, and @app.route("/other")
Decorators ==
    {[node |-> "Name", id |-> "endpoint"],
     [node |-> "Call", func |-> [node |-> "Name", id |-> "endpoint"],
      args |-> <<>>, keywords |-> <<>>],
     [node |-> "Call", func |-> [node |-> "Name", id |-> "endpoint"],
      args |-> <<"/api/users">>, keywords |-> <<>>],
     [node |-> "Call", func |-> [node |-> "Name", id |-> "endpoint"],
      args |-> <<"/api/users">>,
      keywords |-> <<[arg |-> "methods", value |-> <<"GET", "POST">>]>>],
     [node |-> "Call", func |-> [node |-> "Name", id |-> "endpoint"],
      args |-> <<"/api/users">>,
      keywords |-> <<[arg |-> "methods", value |-> <<"POST">>]>>],
     [node |-> "Call", func |-> [node |-> "Attribute", attr |-> "route"],
      args |-> <<"/other">>, keywords |-> <<>>]}

\* def and async def, without and with one argument
FunctionNodes ==
    {[node |-> kind, name |-> f.name, args |-> f.args, decorator_list |-> ds] :
        kind \in {"FunctionDef", "AsyncFunctionDef"},
        f \in {[name |-> "get_users", args |-> <<>>], [name |-> "get_user", args |-> <<"id">>]},
        ds \in {<<>>} \cup {<<d>> : d \in Decorators}}

_is_endpoint_decorator(decorator) ==
    IF decorator.node = "Call"
    THEN decorator.func.node = "Name" /\ decorator.func.id = "endpoint"
    ELSE decorator.node = "Name" /\ decorator.id = "endpoint"

\* the first positional argument of a call, "None" otherwise
_extract_endpoint_path(decorator) ==
    IF decorator.node = "Call" /\ decorator.args # <<>> THEN decorator.args[1] ELSE "None"

\* "All endpoints default to GET method"
_extract_methods(decorator) == <<"GET">>

\* regular arguments without defaults
_extract_parameters(node) ==
    [i \in 1..Len(node.args) |-> [name |-> node.args[i], type |-> "regular", required |-> TRUE]]

\* path and methods of the first @endpoint decorator, ("None", []) without one
RECURSIVE _extract_decorator_info(_, _)
_extract_decorator_info(node, decorator_list) ==
    IF decorator_list = <<>> THEN [endpoint_path |-> "None", methods |-> <<>>]
    ELSE IF _is_endpoint_decorator(decorator_list[1])
         THEN [endpoint_path |->
                  IF _extract_endpoint_path(decorator_list[1]) = "None"
                  THEN <<"/", node.name>> ELSE <<_extract_endpoint_path(decorator_list[1])>>,
               methods |-> _extract_methods(decorator_list[1])]
         ELSE _extract_decorator_info(node, Tail(decorator_list))

\* the EndpointInfo of every FunctionDef that has one, in the order of ast.walk
RECURSIVE parse(_)
parse(code) ==
    IF code = <<>> THEN <<>>
    ELSE (IF code[1].node = "FunctionDef"
             /\ _extract_decorator_info(code[1], code[1].decorator_list).endpoint_path # "None"
          THEN <<[name |-> code[1].name,
                  endpoint_path |->
                      _extract_decorator_info(code[1], code[1].decorator_list).endpoint_path,
                  methods |-> _extract_decorator_info(code[1], code[1].decorator_list).methods,
                  parameters |-> _extract_parameters(code[1])]>>
          ELSE <<>>)
         \o parse(Tail(code))

ParserInit ==
    /\ NoSession /\ AuthIdle /\ AgentIdle
    /\ python_code \in SeqsUpTo(FunctionNodes, MaxFunctions)
    /\ endpoints = [returned |-> FALSE, value |-> <<>>]

\* EndpointParser().parse(python_code)
Parse ==
    /\ ~endpoints.returned
    /\ endpoints' = [returned |-> TRUE, value |-> parse(python_code)]
    /\ UNCHANGED <<python_code, session_vars, auth_vars, agent_vars>>

ParserNext == Parse

ParserSpec == ParserInit /\ [][ParserNext]_vars

(***************************************************************************)
(* OpenAIAgent._json_with_retry (agent.py).  A completion request is one   *)
(* call of client.chat.completions.create; what the model answers is held  *)
(* as what json.loads makes of it.                                         *)
(***************************************************************************)
\* max_attempts: int = 4
DefaultMaxAttempts == 4

\* _json_with_retry calls _call_openai_json with max_attempts=2
CallAttempts == 2

\* the required_keys of the call
required_keys == {"steps"}

\* what json.loads makes of the text: not JSON, an object, an array, null
Texts ==
    {[json |-> FALSE],
     [json |-> TRUE, type |-> "dict", members |-> {"steps"}],
     [json |-> TRUE, type |-> "dict", members |-> {"plan"}],
     [json |-> TRUE, type |-> "list", members |-> {"steps"}],
     [json |-> TRUE, type |-> "list", members |-> {}],
     [json |-> TRUE, type |-> "NoneType"]}

\* _call_openai_json: errors is the number of requests that raise before one
\* answers; after max_attempts failures one more request is made without
\* response_format, and what it raises is not caught
_call_openai_json(errors, max_attempts) ==
    [requests |-> IF errors <= max_attempts THEN errors + 1 ELSE max_attempts + 1,
     raised |-> errors > max_attempts]

\* the repair message appended after a failed attempt
RepairMessage(error, attempt) ==
    [role |-> "user", content |-> [error |-> error, attempt |-> attempt,
                                   required_keys |-> required_keys]]

AgentInit ==
    /\ NoSession /\ AuthIdle /\ ParseIdle
    /\ trace_messages = <<>>
    /\ \E max_attempts \in 0..DefaultMaxAttempts :
          retry = [pc |-> "called", attempt |-> 0, max_attempts |-> max_attempts,
                   requests |-> 0, data |-> [json |-> FALSE]]

\* the two appends that open _json_with_retry
Begin ==
    /\ retry.pc = "called"
    /\ trace_messages' = trace_messages
                            \o <<[role |-> "system", content |-> "system_prompt"],
                                 [role |-> "user", content |-> "user_payload"]>>
    /\ retry' = [retry EXCEPT !.pc = "loop"]
    /\ UNCHANGED <<session_vars, auth_vars, parse_vars>>

\* one iteration of "for attempt in range(1, max_attempts + 1)"
Attempt ==
    /\ retry.pc = "loop"
    /\ retry.attempt < retry.max_attempts
    /\ \E errors \in 0..(CallAttempts + 1), text \in Texts :
       \E attempt \in {retry.attempt + 1} :
       \E call \in {_call_openai_json(errors, CallAttempts)} :
          IF call.raised
          THEN /\ retry' = [retry EXCEPT !.pc = "raised", !.attempt = attempt,
                                         !.requests = @ + call.requests]
               /\ UNCHANGED trace_messages
          ELSE IF ~text.json
          THEN IF attempt = retry.max_attempts
               THEN /\ retry' = [retry EXCEPT !.pc = "raised", !.attempt = attempt,
                                              !.requests = @ + call.requests]
                    /\ UNCHANGED trace_messages
               ELSE /\ retry' = [retry EXCEPT !.attempt = attempt,
                                              !.requests = @ + call.requests]
                    /\ trace_messages' =
                          Append(trace_messages, RepairMessage("Invalid JSON", attempt))
          ELSE IF text.type = "NoneType"
          THEN \* "k not in data" raises TypeError outside the try
               /\ retry' = [retry EXCEPT !.pc = "raised", !.attempt = attempt,
                                         !.requests = @ + call.requests]
               /\ UNCHANGED trace_messages
          ELSE IF required_keys \ text.members # {}
          THEN IF attempt = retry.max_attempts
               THEN /\ retry' = [retry EXCEPT !.pc = "raised", !.attempt = attempt,
                                              !.requests = @ + call.requests]
                    /\ UNCHANGED trace_messages
               ELSE /\ retry' = [retry EXCEPT !.attempt = attempt,
                                              !.requests = @ + call.requests]
                    /\ trace_messages' =
                          Append(trace_messages, RepairMessage("Missing keys", attempt))
          ELSE /\ retry' = [retry EXCEPT !.pc = "returned", !.attempt = attempt,
                                         !.requests = @ + call.requests, !.data = text]
               /\ UNCHANGED trace_messages
    /\ UNCHANGED <<session_vars, auth_vars, parse_vars>>

\* the loop ran out without an attempt: RuntimeError
Exhausted ==
    /\ retry.pc = "loop"
    /\ retry.max_attempts = 0
    /\ retry' = [retry EXCEPT !.pc = "raised"]
    /\ UNCHANGED <<trace_messages, session_vars, auth_vars, parse_vars>>

AgentNext == Begin \/ Attempt \/ Exhausted

AgentSpec == AgentInit /\ [][AgentNext]_vars

(***************************************************************************)
(* Vocabulary of the properties                                            *)
(***************************************************************************)
RECURSIVE OfKinds(_, _)
OfKinds(evs, kinds) ==
    IF evs = <<>> THEN <<>>
    ELSE (IF evs[1].state \in kinds THEN <<evs[1]>> ELSE <<>>) \o OfKinds(Tail(evs), kinds)

\* the records the line parser emits (the summarizer's records are not among them)
ParserKinds == {"restate", "signpost", "tool_progress", "tool_result", "error"}

Last(seq) == seq[Len(seq)]

NoTrailingNewline(text) == text = <<>> \/ Last(text) # NL

\* the session's locals, had everything delivered so far arrived as one chunk
OneChunk == FeedChunk(InitialLocals(initial_contents), consumed)

\* the lines of the block generated last; only the last one can lack its newline
Terminated == generated # <<>> /\ Last(generated) = NL

GenLines ==
    IF Terminated THEN SplitOn(Upto(generated, Len(generated) - 1), NL)
    ELSE SplitOn(generated, NL)

IsFenceLine(line) == StartsWith(Strip(line), Fence)

IsFileLine(line) == Strip(line) # <<>> /\ PathName(Strip(line)) \in filenames

\* the block generated last is: filename line, fence line, body lines, fence line
EditBlock ==
    LET lines == GenLines
    IN /\ Len(lines) >= 3
       /\ IsFileLine(lines[1])
       /\ IsFenceLine(lines[2])
       /\ IsFenceLine(Last(lines))
       /\ \A i \in 3..(Len(lines) - 1) : ~IsFenceLine(lines[i])

Announced == PathName(Strip(GenLines[1]))

BodyText == JoinNL(SubSeq(GenLines, 3, Len(GenLines) - 1))

BodyPatch == parse_search_replace_block(BodyText)

\* the file the patch of the block resolves to in the store as it was before
PatchResolved ==
    apply_search_replace_in_memory(before_block.file_contents, BodyPatch.orig_block,
                                   BodyPatch.upd_block)

\* an edit block that started in the awaiting-file state has just been
\* delivered completely, its closing fence being a complete line
ClosedMidStream ==
    /\ pc = "streaming" /\ pending = <<>>
    /\ Terminated /\ ~before_block.in_tool
    /\ EditBlock

\* the stream ended right after the closing fence of such a block, which had
\* no newline
ClosedAtEof == pc = "done" /\ ~Terminated /\ ~before_block.in_tool /\ EditBlock

Closed == ClosedMidStream \/ ClosedAtEof

\* the records emitted since the block generated last began
NewEvents == SubSeq(events, Len(before_block.events) + 1, Len(events))

ToolResults == OfKinds(NewEvents, {"tool_result"})

(***************************************************************************)
(* C1: however the text is cut into chunks, the parser is in the state,    *)
(* has emitted the records and holds the store that it would have had the  *)
(* whole text arrived as one chunk; the buffer is the unterminated tail of *)
(* the text; and the end-of-stream flush gives the same records and store. *)
(***************************************************************************)
C1_ChunkBoundaryIndependence ==
    /\ pc = "streaming" =>
          /\ Locals = OneChunk
          /\ buffer = Last(SplitOn(consumed, NL))
    /\ pc = "done" =>
          [Locals EXCEPT !.events = OfKinds(@, ParserKinds)] = FlushAtEof(OneChunk)
    /\ pc = "failed" =>
          Locals = [OneChunk EXCEPT !.events = Append(@, ErrorEvent(StreamErrorMessage))]

\* a session that ended after two blocks, with a chunk boundary inside a line
\* and a completed edit
C1_Witness ==
    /\ pc = "done" /\ split_mid_line /\ produced = 2
    /\ \E i \in 1..Len(events) : events[i].state = "tool_result"

(***************************************************************************)
(* C2: a filename line, a fence, a body that is no patch and a closing     *)
(* fence line, met in the awaiting-file state, give one signpost with the  *)
(* file's type and then one tool_result for the file and no other          *)
(* signpost, tool_result or error; the file's store entry becomes the body *)
(* stripped of trailing newlines and the other entries stay; with an empty *)
(* store and the body <p>hi</p> the result reports 1 addition, 0 deletions *)
(* and the content <p>hi</p>.                                              *)
(***************************************************************************)
C2_WholeFileReplacement ==
    (ClosedMidStream /\ ~BodyPatch.ok) =>
        LET tool == OfKinds(NewEvents, {"signpost", "tool_result", "error"})
        IN /\ Len(tool) = 2
           /\ tool[1] = SignpostEvent(filetype_map[Announced])
           /\ tool[2].state = "tool_result"
           /\ tool[2].filename = Announced
           /\ tool[2].target_files = <<filetype_map[Announced]>>
           /\ file_contents = [before_block.file_contents EXCEPT ![Announced] = RStripNL(BodyText)]
           /\ (before_block.file_contents = EmptyFiles /\ BodyText = HtmlHi) =>
                 /\ tool[2].additions = 1
                 /\ tool[2].deletions = 0
                 /\ tool[2].text = HtmlHi

\* the end-to-end scenario: <p>hi</p> written to index.html, all files empty
C2_Witness ==
    /\ ClosedMidStream /\ ~BodyPatch.ok /\ BodyText = HtmlHi
    /\ before_block.file_contents = EmptyFiles
    /\ file_contents[IndexHtml] = HtmlHi

C4_FailedPatchKeepsStore ==
    (Closed /\ BodyPatch.ok /\ PatchResolved.target_name = NoFile) =>
        file_contents = before_block.file_contents

\* a patch failed at the end of the stream against a store that is not empty
C4_Witness ==
    /\ ClosedAtEof /\ BodyPatch.ok /\ PatchResolved.target_name = NoFile
    /\ file_contents # EmptyFiles

(***************************************************************************)
(* C5: a patch whose search text is in no file gives exactly one error     *)
(* record and no tool_result, whether its closing fence is a complete line *)
(* or the unterminated end of the stream.                                  *)
(***************************************************************************)
C5_FailedPatchOneErrorNoResult ==
    (Closed /\ BodyPatch.ok /\ PatchResolved.target_name = NoFile) =>
        OfKinds(NewEvents, {"error", "tool_result"}) = <<ErrorEvent(EditFailMessage)>>

(***************************************************************************)
(* C6: after the error record of an unmatched patch the parser awaits a    *)
(* file again, with no target and no collected lines, and an edit block    *)
(* that follows is handled as at the start of a session: its filename line *)
(* gives a signpost and, its body being no patch, the block gives one      *)
(* tool_result.                                                            *)
(***************************************************************************)
C6_SessionContinuesAfterFailedPatch ==
    /\ (pc = "streaming" /\ events # <<>> /\ Last(events) = ErrorEvent(EditFailMessage)) =>
          /\ ~in_tool /\ ~in_fence /\ ~fence_lang_seen
          /\ current_filename = NoFile
          /\ edit_lines = <<>>
    /\ ( /\ pc = "streaming" /\ pending = <<>> /\ Terminated
         /\ before_block.events # <<>>
         /\ Last(before_block.events) = ErrorEvent(EditFailMessage)
         /\ EditBlock ) =>
          LET tool == OfKinds(NewEvents, {"signpost", "tool_result", "error"})
          IN /\ tool # <<>>
             /\ tool[1] = SignpostEvent(filetype_map[Announced])
             /\ ~BodyPatch.ok =>
                   /\ Len(tool) = 2
                   /\ tool[2].state = "tool_result"
                   /\ tool[2].filename = Announced
                   /\ file_contents[Announced] = RStripNL(BodyText)

\* an edit was completed after a patch had failed
C6_Witness ==
    /\ ClosedMidStream /\ ~BodyPatch.ok
    /\ before_block.events # <<>>
    /\ Last(before_block.events) = ErrorEvent(EditFailMessage)
    /\ Len(ToolResults) = 1

(***************************************************************************)
(* C7: when the upstream raises, in whatever state the parser is, one      *)
(* error record with the error's message is emitted and it is the last     *)
(* record; nothing else changes: no collected fence content reaches the    *)
(* store and the store is not written to disk.                             *)
(***************************************************************************)
C7_UpstreamFailureIsTerminal ==
    /\ [](pc = "failed" =>
            /\ Last(events) = ErrorEvent(StreamErrorMessage)
            /\ Len(OfKinds(events, {"tool_result"})) = Len(OfKinds(OneChunk.events, {"tool_result"}))
            /\ file_contents = OneChunk.file_contents
            /\ \E file_map \in IncomingFiles :
                  disk = file_map /\ initial_contents = [f \in filenames |-> RStripNL(file_map[f])])
    /\ [][pc' = "failed" =>
            /\ events' = Append(events, ErrorEvent(StreamErrorMessage))
            /\ file_contents' = file_contents
            /\ disk' = disk]_vars
    /\ [][pc = "failed" => UNCHANGED <<events, file_contents, disk>>]_vars

\* the upstream failed inside an open fence with lines collected, after an
\* edit had changed the store
C7_Witness ==
    /\ pc = "failed" /\ in_fence /\ edit_lines # <<>>
    /\ file_contents # initial_contents

(***************************************************************************)
(* C8: the updated_content of every tool_result has no trailing newline    *)
(* and is the store entry of the reported file right after the edit.       *)
(***************************************************************************)
C8_UpdatedContentIsStoreEntry ==
    LET results == OfKinds(events, {"tool_result"})
    IN /\ \A i \in 1..Len(results) : NoTrailingNewline(results[i].text)
       /\ results # <<>> => Last(results).text = file_contents[Last(results).filename]

(***************************************************************************)
(* C9: no value of the file store ends in a newline, in any state.         *)
(***************************************************************************)
C9_StoreHasNoTrailingNewline ==
    \A f \in filenames : NoTrailingNewline(file_contents[f])

\* the store was seeded from content ending in a newline and then took a
\* replacement whose text ended in newlines and a patch whose result did
C9_Witness ==
    /\ \E f \in filenames : initial_contents[f] # <<>> /\ disk[f] # initial_contents[f]
    /\ produced = 2 /\ pending = <<>> /\ pc = "streaming"
    /\ file_contents[StylesCss] = CssRed
    /\ file_contents[IndexHtml] # initial_contents[IndexHtml]
    /\ Len(OfKinds(events, {"tool_result"})) = 2

(***************************************************************************)
(* C10: a whole-file replacement whose content is the stored content       *)
(* followed by any number of newlines reports 0 additions and 0 deletions  *)
(* and leaves the store as it was.                                         *)
(***************************************************************************)
C10_TrailingNewlinesAreNoEdit ==
    (Closed /\ ~BodyPatch.ok /\ RStripNL(BodyText) = before_block.file_contents[Announced]) =>
        /\ Len(ToolResults) = 1
        /\ ToolResults[1].additions = 0
        /\ ToolResults[1].deletions = 0
        /\ file_contents = before_block.file_contents

(***************************************************************************)
(* C11: a completed edit whose new content equals the content the store    *)
(* held for that file before the edit (the empty content included) is      *)
(* reported with 0 additions and 0 deletions.                              *)
(***************************************************************************)
C11_DiffIdentity ==
    Closed =>
        \A i \in 1..Len(ToolResults) :
            file_contents[ToolResults[i].filename]
                    = before_block.file_contents[ToolResults[i].filename]
                => ToolResults[i].additions = 0 /\ ToolResults[i].deletions = 0

(***************************************************************************)
(* C12: when a completed edit leaves the file with its old lines, one of   *)
(* them replaced by a different line, the tool_result reports 1 addition   *)
(* and 1 deletion; and a patch of color:red to color:blue over a store     *)
(* whose styles.css holds body{color:red} gives a tool_result for          *)
(* styles.css of type css with 1 addition, 1 deletion and the content      *)
(* body{color:blue}.                                                       *)
(***************************************************************************)
OneLineReplaced(old, new) ==
    /\ Len(old) = Len(new)
    /\ Cardinality({i \in 1..Len(old) : old[i] # new[i]}) = 1

C12_OneLineReplacedIsOneOne ==
    Closed =>
        /\ \A i \in 1..Len(ToolResults) :
              OneLineReplaced(SplitLines(before_block.file_contents[ToolResults[i].filename]),
                              SplitLines(file_contents[ToolResults[i].filename]))
                  => ToolResults[i].additions = 1 /\ ToolResults[i].deletions = 1
        /\ ( /\ BodyPatch.ok
             /\ BodyPatch.orig_block = ColorRed
             /\ BodyPatch.upd_block = ColorBlue
             /\ before_block.file_contents[StylesCss] = CssRed )
             => ToolResults = <<ToolResultEvent("css", [additions |-> 1, deletions |-> 1],
                                                StylesCss, Upto(CssRed, 11) \o <<"b", "l", "u", "e", "}">>)>>

(***************************************************************************)
(* C13: the statistics a tool_result reports are those of a minimal        *)
(* line-level edit script between the old and the new content: deletions   *)
(* is the number of old lines less the length of a longest common          *)
(* subsequence, additions the number of new lines less that length.        *)
(* (Stated for whole-file blocks whose content has no trailing newline, so *)
(* that the two contents compared are the old and the new store entry.)    *)
(***************************************************************************)
\* length of a longest common subsequence of a and b
RECURSIVE LcsLen(_, _)
LcsLen(a, b) ==
    IF a = <<>> \/ b = <<>> THEN 0
    ELSE IF a[1] = b[1] THEN 1 + LcsLen(Tail(a), Tail(b))
    ELSE LET x == LcsLen(Tail(a), b)
             y == LcsLen(a, Tail(b))
         IN IF x >= y THEN x ELSE y

C13_DiffIsMinimalEditScript ==
    (Closed /\ ~BodyPatch.ok /\ NoTrailingNewline(BodyText)) =>
        LET old == SplitLines(before_block.file_contents[Announced])
            new == SplitLines(file_contents[Announced])
        IN /\ Len(ToolResults) = 1
           /\ ToolResults[1].filename = Announced
           /\ ToolResults[1].deletions = Len(old) - LcsLen(old, new)
           /\ ToolResults[1].additions = Len(new) - LcsLen(old, new)

(***************************************************************************)
(* C14: at every moment the accumulator of each filename holds the sums of *)
(* the additions and of the deletions of the tool_result records emitted   *)
(* for that filename so far, and a filename without a tool_result has no   *)
(* entry in the accumulator.                                               *)
(***************************************************************************)
\* the tool_result records among evs that name file f
RECURSIVE ResultsFor(_, _)
ResultsFor(evs, f) ==
    IF evs = <<>> THEN <<>>
    ELSE (IF evs[1].state = "tool_result" /\ evs[1].filename = f THEN <<evs[1]>> ELSE <<>>)
         \o ResultsFor(Tail(evs), f)

RECURSIVE SumAdditions(_)
SumAdditions(evs) == IF evs = <<>> THEN 0 ELSE evs[1].additions + SumAdditions(Tail(evs))

RECURSIVE SumDeletions(_)
SumDeletions(evs) == IF evs = <<>> THEN 0 ELSE evs[1].deletions + SumDeletions(Tail(evs))

C14_AccumulatorIsSumOfResults ==
    \A f \in filenames :
        IF ResultsFor(events, f) = <<>> THEN f \notin DOMAIN file_diff_stats
        ELSE /\ f \in DOMAIN file_diff_stats
             /\ file_diff_stats[f].additions = SumAdditions(ResultsFor(events, f))
             /\ file_diff_stats[f].deletions = SumDeletions(ResultsFor(events, f))

\* two completed edits of one file, each with additions
C14_Witness ==
    \E f \in filenames :
        /\ Len(ResultsFor(events, f)) = 2
        /\ ResultsFor(events, f)[1].additions > 0
        /\ ResultsFor(events, f)[2].additions > 0
        /\ f \in DOMAIN file_diff_stats
        /\ file_diff_stats[f].additions
              = ResultsFor(events, f)[1].additions + ResultsFor(events, f)[2].additions

(***************************************************************************)
(* C15: the statistics of a tool_result for file R are the line difference *)
(* between R's store entry before the edit and R's store entry after it,   *)
(* whichever file the block announced.  (Stated for patch blocks.)         *)
(***************************************************************************)
C15_DiffComparesVersionsOfResolvedFile ==
    (Closed /\ BodyPatch.ok) =>
        \A i \in 1..Len(ToolResults) :
            [additions |-> ToolResults[i].additions, deletions |-> ToolResults[i].deletions]
                = ndiff_stats(SplitLines(before_block.file_contents[ToolResults[i].filename]),
                              SplitLines(file_contents[ToolResults[i].filename]))

(***************************************************************************)
(* C16: when the stream ends right after the closing fence of a whole-file *)
(* block, with no newline after it, the tool_result emitted and the final  *)
(* store are those the same stream gives when a newline follows the        *)
(* closing fence.                                                          *)
(***************************************************************************)
\* the locals had the block generated last been followed by a newline
WithNewline == FeedChunk(before_block, generated \o <<NL>>)

C16_EofCloseEqualsMidStreamClose ==
    (ClosedAtEof /\ ~BodyPatch.ok) =>
        /\ ToolResults = OfKinds(SubSeq(WithNewline.events, Len(before_block.events) + 1,
                                        Len(WithNewline.events)), {"tool_result"})
        /\ file_contents = WithNewline.file_contents

(***************************************************************************)
(* C17: when a filename line arrives in the awaiting-file state while free *)
(* text is pending, the restate record carrying that text comes first and  *)
(* the signpost of the file right after it; and no free text is pending in *)
(* any state in which an edit is open.                                     *)
(***************************************************************************)
\* the first line of the block generated last has been delivered completely
FirstLineDelivered ==
    /\ generated # <<>>
    /\ IndexOfChar(generated, NL) # 0
    /\ Len(generated) - Len(pending) >= IndexOfChar(generated, NL)

C17_RestateBeforeSignpost ==
    /\ in_tool => message_accum = <<>>
    /\ ( /\ FirstLineDelivered
         /\ ~before_block.in_tool
         /\ before_block.message_accum # <<>>
         /\ IsFileLine(GenLines[1]) )
         => /\ Len(NewEvents) >= 2
            /\ NewEvents[1] = RestateEvent(_sanitize_message_text(before_block.message_accum))
            /\ NewEvents[2] = SignpostEvent(filetype_map[Announced])

\* free text, then a filename line: the edit is open and the text was flushed
C17_Witness ==
    /\ in_tool /\ pc = "streaming"
    /\ before_block.message_accum # <<>>
    /\ ~before_block.in_tool
    /\ Len(NewEvents) = 2
    /\ NewEvents[1].state = "restate" /\ NewEvents[1].text = TextHi \o <<NL>>
    /\ NewEvents[2].state = "signpost"

(***************************************************************************)
(* C18: at most one edit is open at a time.  Between any two signposts     *)
(* there is a tool_result or a patch-failure error; an edit is open        *)
(* exactly when no such record follows the last signpost; and a filename   *)
(* line that arrives while an edit is open, before or inside the fence,    *)
(* emits no signpost.                                                      *)
(***************************************************************************)
\* the record closes an edit
IsCloser(e) == e.state = "tool_result" \/ (e.state = "error" /\ e.text = EditFailMessage)

Signposts(evs) == {i \in 1..Len(evs) : evs[i].state = "signpost"}

C18_AtMostOneOpenEdit ==
    /\ \A i \in Signposts(events), j \in Signposts(events) :
          i < j => \E k \in (i + 1)..(j - 1) : IsCloser(events[k])
    /\ in_tool <=> \E i \in Signposts(events) :
                      \A k \in (i + 1)..Len(events) :
                          events[k].state # "signpost" /\ ~IsCloser(events[k])
    /\ (pc = "streaming" /\ in_tool) =>
          \A f \in filenames :
              Signposts(ProcessLine(Locals, f).events) = Signposts(events)
    /\ (generated # <<>> /\ before_block.in_tool /\ IsFileLine(GenLines[1])) =>
          Signposts(NewEvents) = {}

\* a filename line was delivered inside the open fence of another file's edit
C18_Witness ==
    /\ pc = "streaming" /\ in_tool /\ in_fence
    /\ before_block.in_fence
    /\ FirstLineDelivered
    /\ IsFileLine(GenLines[1])
    /\ current_filename = FrontendJs
    /\ Last(edit_lines) = IndexHtml
    /\ Cardinality(Signposts(events)) = 1

(***************************************************************************)
(* C19: a line that arrives in the awaiting-file state emits a signpost    *)
(* and opens an edit of file f exactly when the basename of the trimmed    *)
(* line is the canonical filename f.  Any other line emits nothing and     *)
(* leaves the parser awaiting a file; it is added to the pending free text *)
(* (unless it is blank).                                                   *)
(***************************************************************************)
\* a single line, generated in the awaiting-file state, has been delivered
LineDelivered ==
    /\ pc = "streaming" /\ pending = <<>>
    /\ Terminated /\ Len(GenLines) = 1
    /\ ~before_block.in_tool

PeerOneChunk == FeedChunk(InitialLocals(peer.initial_contents), peer.consumed)

SessionsAsAlone ==
    /\ pc = "streaming" => Locals = OneChunk
    /\ pc = "done" =>
          [Locals EXCEPT !.events = OfKinds(@, ParserKinds)] = FlushAtEof(OneChunk)
    /\ peer.pc = "streaming" => peer.locals = PeerOneChunk
    /\ peer.pc = "done" =>
          [peer.locals EXCEPT !.events = OfKinds(@, ParserKinds)] = FlushAtEof(PeerOneChunk)

C20_SessionsAreIsolated ==
    /\ [](peer # NoPeer => SessionsAsAlone)
    /\ [][peer' # peer => UNCHANGED <<parser_vars, disk, pc>>]_vars
    /\ [][<<parser_vars, disk, pc>>' # <<parser_vars, disk, pc>> => peer' = peer]_vars

\* both sessions have consumed chunks since they were taken up and both
\* stand inside the line of their closing fence
C20_Witness ==
    /\ peer # NoPeer
    /\ pc = "streaming" /\ peer.pc = "streaming"
    /\ edit_lines = <<HtmlHi>> /\ buffer # <<>>
    /\ peer.locals.edit_lines # <<>>
    /\ Last(peer.locals.edit_lines) = ReplaceMarker
    /\ peer.locals.buffer # <<>>
    /\ \E i \in 1..Len(MESSAGE_HISTORY) : MESSAGE_HISTORY[i].role = "assistant"

(***************************************************************************)
(* C21: however the calls of the session and of other callers follow one   *)
(* another, MESSAGE_HISTORY never holds more than 1000 entries; every step *)
(* leaves it the last 1000 of its old entries followed by the valid        *)
(* entries appended, so that what it holds is always the most recently     *)
(* appended valid entries in their append order; the text of a record the  *)
(* session reports is the newest entry when the step is over; an entry     *)
(* whose role is not user, assistant or system, or whose content is not a  *)
(* string, leaves the history as it was; and the session's locals are the  *)
(* ones the parser computes from the text alone, whatever the history      *)
(* holds.                                                                  *)
(***************************************************************************)
ValidEntry(entry) ==
    /\ DOMAIN entry = {"role", "content"}
    /\ entry.role \in {"user", "assistant", "system"}

\* new is old with k entries appended and the oldest dropped down to the cap
AppendedTo(old, new, k) ==
    /\ k <= Len(new)
    /\ Len(new) = Min(HistoryCap, Len(old) + k)
    /\ SubSeq(new, 1, Len(new) - k) = SubSeq(old, Len(old) - (Len(new) - k) + 1, Len(old))
    /\ \A i \in (Len(new) - k + 1)..Len(new) : ValidEntry(new[i])

\* the assistant entries of the records a step of the session added
ReportedEntries(evs) ==
    [i \in 1..Len(OfKinds(evs, {"restate", "summary", "suggestions"})) |->
        [role |-> "assistant",
         content |-> OfKinds(evs, {"restate", "summary", "suggestions"})[i].text]]

C21_HistoryIsCappedAndRecent ==
    /\ [](Len(MESSAGE_HISTORY) <= HistoryCap)
    /\ [][\E k \in 0..Len(MESSAGE_HISTORY') :
             AppendedTo(MESSAGE_HISTORY, MESSAGE_HISTORY', k)]_vars
    /\ [][\E added \in {ReportedEntries(SubSeq(events', Len(events) + 1, Len(events')))} :
             /\ Len(added) <= Len(MESSAGE_HISTORY')
             /\ SubSeq(MESSAGE_HISTORY', Len(MESSAGE_HISTORY') - Len(added) + 1,
                       Len(MESSAGE_HISTORY')) = added]_vars
    /\ [](\A entry \in OtherEntries :
             IF ValidEntry(entry)
             THEN Last(_append_history(MESSAGE_HISTORY, entry)) = entry
             ELSE _append_history(MESSAGE_HISTORY, entry) = MESSAGE_HISTORY)
    /\ [](pc = "streaming" => Locals = OneChunk)
    /\ [](pc = "done" =>
             [Locals EXCEPT !.events = OfKinds(@, ParserKinds)] = FlushAtEof(OneChunk))
    /\ [][history_calls' # history_calls => UNCHANGED <<parser_vars, disk, pc>>]_vars

\* the history is full, its oldest entries are gone, the session has ended
\* after reporting free text, and another caller's entry is the newest
C21_Witness ==
    /\ Len(MESSAGE_HISTORY) = HistoryCap
    /\ MESSAGE_HISTORY[1] = PriorEntry(4)
    /\ history_calls = MaxCalls
    /\ pc = "done"
    /\ Last(MESSAGE_HISTORY) = [role |-> "system", content |-> <<"x">>]
    /\ \E i \in 1..Len(MESSAGE_HISTORY) :
          MESSAGE_HISTORY[i] = [role |-> "assistant", content |-> TextHi \o <<NL>>]

(***************************************************************************)
(* C22: a POST /send-password-reset whose username_or_email matches no     *)
(* account is answered with status 200, the status an existing account     *)
(* gets, and adds no record to password_reset_tokens.                      *)
(***************************************************************************)
SendHandled == http # <<>> /\ http.endpoint = "/send-password-reset"

C22_UnknownAccountGetsSuccess ==
    /\ [](SendHandled => http.status = 200)
    /\ [][(http' # http /\ http'.endpoint = "/send-password-reset"
             /\ UserByNameOrEmail(db.users, http'.arg) = 0) => db' = db]_vars

(***************************************************************************)
(* C30: no token is redeemed twice; a token is redeemed only while it is   *)
(* the newest token of its user; once a /reset-password with a token has   *)
(* succeeded, every later /reset-password or /validate-reset-token with it *)
(* is answered with status 400 and leaves the users table as it was; and   *)
(* in every state each user has at most one unused token, which is the     *)
(* one the latest /send-password-reset for that user issued.               *)
(***************************************************************************)
\* the index of the record issued last for the user, 0 if there is none
NewestOf(tokens, id) ==
    IF \E i \in 1..Len(tokens) : tokens[i].user_id = id
    THEN CHOOSE i \in 1..Len(tokens) :
             /\ tokens[i].user_id = id
             /\ \A j \in (i + 1)..Len(tokens) : tokens[j].user_id # id
    ELSE 0

RecordOf(tokens, token) == CHOOSE i \in 1..Len(tokens) : tokens[i].token = token

C30_TokenRedeemedAtMostOnce ==
    /\ [](\A i, j \in 1..Len(redeemed) : redeemed[i] = redeemed[j] => i = j)
    /\ [](\A i \in 1..Len(db.password_reset_tokens) :
             ~db.password_reset_tokens[i].used =>
                 i = NewestOf(db.password_reset_tokens,
                              db.password_reset_tokens[i].user_id))
    /\ [][redeemed' # redeemed =>
             \E i \in {RecordOf(db.password_reset_tokens, Last(redeemed'))} :
                 /\ i = NewestOf(db.password_reset_tokens, db.password_reset_tokens[i].user_id)
                 /\ ~db.password_reset_tokens[i].used
                 /\ db.password_reset_tokens[i].expires_at > utcnow
                 /\ db'.password_reset_tokens[i].used]_vars
    /\ [][(utcnow' = utcnow
             /\ http'.endpoint \in {"/reset-password", "/validate-reset-token"}
             /\ \E i \in 1..Len(redeemed) : redeemed[i] = http'.arg)
            => (http'.status = 400 /\ db'.users = db.users)]_vars

\* the first token was replaced by a second for the same user, the second
\* was redeemed in time, and a further /reset-password with it was refused
C30_Witness ==
    /\ redeemed = <<2>>
    /\ Len(db.password_reset_tokens) = 2
    /\ db.password_reset_tokens[1].user_id = 1 /\ db.password_reset_tokens[2].user_id = 1
    /\ db.password_reset_tokens[1].used /\ db.password_reset_tokens[2].used
    /\ db.password_reset_tokens[2].expires_at > utcnow
    /\ db.users[1].password = get_password_hash("newpass123")
    /\ http = [endpoint |-> "/reset-password", arg |-> 2, status |-> 400,
               reset_token |-> FakeToken]

(***************************************************************************)
(* C23: parse returns one EndpointInfo for every function that carries an  *)
(* @endpoint decorator, in order, and none for any other function; the     *)
(* methods of each are the ones the decorator's methods argument lists,    *)
(* and GET alone when the decorator has no such argument.                  *)
(***************************************************************************)
\* the functions of the code that carry an @endpoint decorator
RECURSIVE DecoratedFunctions(_)
DecoratedFunctions(code) ==
    IF code = <<>> THEN <<>>
    ELSE (IF \E i \in 1..Len(code[1].decorator_list) :
                 _is_endpoint_decorator(code[1].decorator_list[i])
          THEN <<code[1]>> ELSE <<>>) \o DecoratedFunctions(Tail(code))

\* the list of the methods keyword of a call, GET without one
MethodsOf(decorator) ==
    IF decorator.node = "Call" /\ decorator.keywords # <<>>
    THEN decorator.keywords[1].value ELSE <<"GET">>

EndpointDecoratorOf(node) ==
    node.decorator_list[CHOOSE i \in 1..Len(node.decorator_list) :
                            _is_endpoint_decorator(node.decorator_list[i])]

C23_OneEndpointPerDecoratedFunction ==
    endpoints.returned =>
        /\ Len(endpoints.value) = Len(DecoratedFunctions(python_code))
        /\ \A i \in 1..Len(endpoints.value) :
              /\ endpoints.value[i].name = DecoratedFunctions(python_code)[i].name
              /\ endpoints.value[i].methods =
                     MethodsOf(EndpointDecoratorOf(DecoratedFunctions(python_code)[i]))

(***************************************************************************)
(* C29: a call of _json_with_retry makes at most max_attempts completion   *)
(* requests; what it returns is a parsed object holding every required     *)
(* key; the trace holds exactly one repair message for each failed attempt *)
(* that was not the last; and it raises only on the last attempt.          *)
(***************************************************************************)
\* the attempts that failed and were not the last
FailedBeforeLast ==
    IF retry.pc = "returned" THEN retry.attempt - 1
    ELSE IF retry.pc = "raised" /\ retry.attempt = retry.max_attempts
         THEN retry.max_attempts - 1
         ELSE retry.attempt

C29_RetryIsBounded ==
    retry.pc # "called" =>
        /\ retry.requests <= retry.max_attempts
        /\ retry.pc = "returned" =>
              retry.data.type = "dict" /\ required_keys \subseteq retry.data.members
        /\ retry.pc = "raised" => retry.attempt = retry.max_attempts
        /\ Len(trace_messages) = 2 + (IF retry.max_attempts = 0 THEN 0 ELSE FailedBeforeLast)

(***************************************************************************)
(* C24: a blank line (empty or only whitespace) that arrives in the        *)
(* awaiting-file state is added, with its newline, to the pending free     *)
(* text, and no record is emitted for it.                                  *)
(***************************************************************************)
C24_BlankLineIsAccumulated ==
    (LineDelivered /\ Strip(GenLines[1]) = <<>>) =>
        /\ NewEvents = <<>>
        /\ message_accum = before_block.message_accum \o GenLines[1] \o <<NL>>

(***************************************************************************)
(* C25: a line that arrives after the signpost and before the fence opens, *)
(* and is not a fence marker, produces exactly one tool_progress record    *)
(* carrying the announced file and the line, and the edit stays open on    *)
(* the same file with the fence not yet open; a line whose trimmed form    *)
(* starts with three backticks produces no record and opens the fence with *)
(* no lines collected.                                                     *)
(***************************************************************************)
\* a single line, generated after a signpost and before the fence, has been
\* delivered
PreFenceLineDelivered ==
    /\ pc = "streaming" /\ pending = <<>>
    /\ Terminated /\ Len(GenLines) = 1
    /\ before_block.in_tool /\ ~before_block.in_fence

C25_PreFenceLineGivesOneProgress ==
    PreFenceLineDelivered =>
        /\ in_tool /\ current_filename = before_block.current_filename
        /\ IF IsFenceLine(GenLines[1])
           THEN NewEvents = <<>> /\ in_fence /\ edit_lines = <<>>
           ELSE /\ NewEvents = <<ToolProgressEvent(before_block.current_filename, GenLines[1])>>
                /\ ~in_fence

(***************************************************************************)
(* C26: inside the fence, the line that comes right after the fence        *)
(* opening marker is dropped, and the lines after it are collected as they *)
(* are and in order: the lines collected are the lines delivered after the *)
(* opening marker without the first of them.                               *)
(***************************************************************************)
\* the complete lines delivered of the block generated last
DeliveredLines ==
    LET parts == SplitOn(Upto(generated, Len(generated) - Len(pending)), NL)
    IN SubSeq(parts, 1, Len(parts) - 1)

\* a block that began in the awaiting-file state has opened its fence, and
\* at least one line has followed the opening marker, none of them a marker
LinesInsideFence ==
    /\ pc = "streaming" /\ in_fence
    /\ ~before_block.in_tool
    /\ Len(DeliveredLines) >= 3
    /\ IsFileLine(DeliveredLines[1])
    /\ IsFenceLine(DeliveredLines[2])
    /\ \A i \in 3..Len(DeliveredLines) : ~IsFenceLine(DeliveredLines[i])

C26_FirstLineAfterFenceDropped ==
    LinesInsideFence => edit_lines = SubSeq(DeliveredLines, 4, Len(DeliveredLines))

(***************************************************************************)
(* C27: when the upstream is exhausted and the session is not inside a     *)
(* fence with a closing marker as the unterminated rest of the text, the   *)
(* parser emits one more restate record if the pending free text followed  *)
(* by the unterminated rest is not empty, carrying that text (sanitized as *)
(* every restate text is), and nothing if it is empty; it emits no         *)
(* tool_result and no signpost, the lines collected inside an open fence   *)
(* are not applied, and the store and the diff statistics are what they    *)
(* were; the files written to disk are that store.                         *)
(***************************************************************************)
\* the step that ends the session, outside the closing-fence case
PlainEndOfStream ==
    /\ pc = "streaming" /\ pc' = "done"
    /\ ~(in_fence /\ StartsWith(Strip(buffer), Fence) /\ current_filename # NoFile)

C27_EofFlushesFreeTextOnly ==
    [][PlainEndOfStream =>
         /\ OfKinds(SubSeq(events', Len(events) + 1, Len(events')), ParserKinds)
               = IF message_accum \o buffer # <<>>
                 THEN <<RestateEvent(_sanitize_message_text(message_accum \o buffer))>>
                 ELSE <<>>
         /\ file_contents' = file_contents
         /\ file_diff_stats' = file_diff_stats
         /\ disk' = file_contents]_vars

\* the stream ended inside the fence of an edit of frontend.js with x as the
\* unterminated rest: x was reported as text and the store is as seeded
C27_Witness ==
    /\ pc = "done"
    /\ in_fence /\ current_filename = FrontendJs
    /\ edit_lines = <<>> /\ buffer = <<"x">>
    /\ OfKinds(events, {"restate"}) # <<>>
    /\ Last(OfKinds(events, {"restate"})) = RestateEvent(<<"x">>)
    /\ OfKinds(events, {"tool_result"}) = <<>>
    /\ file_contents = initial_contents

(***************************************************************************)
(* C28: in every state of a session, the fence is open only while an edit  *)
(* is open; an edit is open exactly when current_filename is one of the    *)
(* three canonical filenames, and it is unset otherwise; and right after   *)
(* Finalize has run on a complete closing-fence line, whether the edit was *)
(* applied or failed, no edit is open, no fence is open, there is no       *)
(* current file and no line is collected.                                  *)
(***************************************************************************)
\* the locals before the last line of the block generated last arrived
BeforeLastLine == FeedChunk(before_block, Lines(SubSeq(GenLines, 1, Len(GenLines) - 1)))

\* the last line delivered was a closing fence marker, complete with its
\* newline, and Finalize ran on it
JustFinalized ==
    /\ pc = "streaming" /\ pending = <<>>
    /\ Terminated
    /\ IsFenceLine(Last(GenLines))
    /\ BeforeLastLine.in_fence

C28_ParserStateInvariants ==
    /\ in_fence => in_tool
    /\ in_tool <=> current_filename \in filenames
    /\ ~in_tool => current_filename = NoFile
    /\ JustFinalized =>
          /\ ~in_tool /\ ~in_fence
          /\ current_filename = NoFile
          /\ edit_lines = <<>>

\* a patch whose search text is in no file was finalized: the error is the
\* last record and the machine awaits a file line
C28_Witness ==
    /\ JustFinalized
    /\ BeforeLastLine.edit_lines # <<>>
    /\ Last(events).state = "error"
    /\ ~in_tool /\ current_filename = NoFile

=============================================================================
